---------------------------- MODULE Spec2Model ----------------------------
(***************************************************************************)
(* A model of the Polaris Hub client (src/polaris/hub/client.py): the      *)
(* token-exchange session (ensure_active_token, request, login), the       *)
(* error translation of _base_request_to_hub, and the multi-step           *)
(* get_dataset / upload_dataset transactions.                              *)
(*                                                                         *)
(* The client is single-threaded and blocking.  Every outbound request is  *)
(* one step of the model: the answer of the network (connect failure,      *)
(* status, body) and of the token endpoint is chosen by the environment.   *)
(* Between two requests of one call time may pass, so a token may expire.  *)
(***************************************************************************)
EXTENDS Integers, Sequences, FiniteSets, TLC

(***************************************************************************)
(* Bounds of the model.                                                    *)
(***************************************************************************)
\* opaque token values are drawn from 1..MaxTok
MaxTok == 2
\* timeouts (settings.default_timeout, the timeout argument) are 1..MaxTimeout
MaxTimeout == 2
\* a structured error body has members with keys in 1..MaxKeys
MaxKeys == 2
\* the array store of a dataset has MaxChunks chunks
MaxChunks == 2
\* a name given to BenchmarkResults has at most MaxNameLen characters
MaxNameLen == 3
\* the input of a splitter has 1..MaxSamples samples
MaxSamples == 3
\* a splitter yields at most MaxSplits splits per call
MaxSplits == 2
\* _iter_indices is called at most MaxCalls times on one splitter
MaxCalls == 2

VARIABLES
    token,            \* self.token: the hub token (OAuth2Client.token)
    ext,              \* self.external_client.token: the identity token
    default_timeout,  \* self.settings.default_timeout
    pc,               \* position of the call in progress ("idle": none)
    up,               \* locals of the upload_dataset call in progress
    log,              \* requests sent by the call in progress / last call
    last,             \* how the last call ended
    dl,               \* locals of the get_dataset / get_benchmark call in progress
    dataset,          \* the Dataset object the caller holds and uploads
    hub,              \* what the hub holds of the dataset
    res,              \* the BenchmarkResults object under construction
    split             \* a MinMaxSplit object, its input and its calls

vars == <<token, ext, default_timeout, pc, up, log, last, dl, dataset, hub, res, split>>
\* the objects of the library that no call of the client touches
objects == <<res, split>>

(***************************************************************************)
(* Tokens.  expired: is_expired() of the OAuth2Token; refresh: the token   *)
(* carries a refresh_token.  present = FALSE models None.                  *)
(***************************************************************************)
Tok(i, e, r) == [present |-> TRUE, id |-> i, expired |-> e, refresh |-> r]
NoToken == [present |-> FALSE, id |-> 0, expired |-> FALSE, refresh |-> FALSE]
Tokens == {NoToken} \cup {Tok(i, e, r) : i \in 1..MaxTok, e \in BOOLEAN, r \in BOOLEAN}
\* identity tokens: their value is never compared, so one value stands for all
IdentityTokens == {NoToken} \cup {Tok(1, e, r) : e \in BOOLEAN, r \in BOOLEAN}
\* a token value the endpoint has not handed out as the current one
FreshId(t) == (t.id % MaxTok) + 1

(***************************************************************************)
(* Exceptions.  cls "none" is a normal return.  ssl: the text of a         *)
(* ConnectError holds "[SSL: CERTIFICATE_VERIFY_FAILED]".  status: the     *)
(* status of the response an HTTPStatusError carries.  msg: the payload    *)
(* text of a PolarisHubError.                                              *)
(***************************************************************************)
Err(c, s) == [cls |-> c, ssl |-> FALSE, status |-> s, msg |-> <<>>]
NoErr == Err("none", 0)
ConnectErr(isSsl) == [cls |-> "ConnectError", ssl |-> isSsl, status |-> 0, msg |-> <<>>]
HubErr(m) == [cls |-> "PolarisHubError", ssl |-> FALSE, status |-> 0, msg |-> m]

(***************************************************************************)
(* Responses.  A body is JSON or not; the wire text of a JSON object is    *)
(* the sequence of its members' keys in the order the server wrote them.   *)
(***************************************************************************)
Statuses == {200, 307, 401, 404, 500}
Is2xx(s) == s \div 100 = 2
Wires == {w \in UNION {[1..n -> 1..MaxKeys] : n \in 0..MaxKeys} :
              \A i, j \in 1..Len(w) : w[i] = w[j] => i = j}
TextBody == [json |-> FALSE, wire |-> <<>>]
Bodies == {TextBody} \cup {[json |-> TRUE, wire |-> w] : w \in Wires}
NoResp == [status |-> 0, body |-> TextBody]
EmptyJson == [json |-> TRUE, wire |-> <<>>]
Responses == {[status |-> s, body |-> b] : s \in {401, 404}, b \in Bodies}
                \cup {[status |-> s, body |-> b] : s \in Statuses, b \in {TextBody, EmptyJson}}

\* response.json(): the parsed object (its set of members); only for a JSON body
ParseJson(body) == {body.wire[i] : i \in 1..Len(body.wire)}
\* json.dumps(obj, indent=2, sort_keys=True): the members in key order
RECURSIVE DumpsSorted(_)
DumpsSorted(obj) ==
    IF obj = {} THEN <<>>
    ELSE LET k == CHOOSE x \in obj : \A y \in obj : x <= y
         IN <<k>> \o DumpsSorted(obj \ {k})

(***************************************************************************)
(* What the environment answers while a token is checked or fetched.       *)
(*   refresh    : the token endpoint's answer to a refresh_token grant     *)
(*   extRefresh : whether the identity provider refreshes the identity     *)
(*                token in place                                           *)
(*   xo         : the token endpoint's answer to the token exchange        *)
(*   rf         : whether an issued hub token carries a refresh_token      *)
(***************************************************************************)
XOutcomes == {"ok", "rejected", "http500", "ssl", "refused"}
AllAuthEnvs == [refresh : {"ok", "rejected"}, extRefresh : BOOLEAN,
                xo : XOutcomes, rf : BOOLEAN]
QuietEnv == [refresh |-> "rejected", extRefresh |-> FALSE, xo |-> "rejected", rf |-> FALSE]
\* the answers that can matter to a token exchange made with identity token x
XEnvs(x) == {a \in AllAuthEnvs : /\ a.refresh = "rejected"
                                 /\ a.extRefresh = FALSE
                                 /\ (a.rf => a.xo = "ok")}
\* the answers that can matter to an activity check of hub token tok
AuthEnvs(tok, x) ==
    IF ~tok.present \/ ~tok.expired THEN {QuietEnv}
    ELSE IF tok.refresh
    THEN {[QuietEnv EXCEPT !.refresh = r] : r \in {"ok", "rejected"}}
    ELSE {a \in AllAuthEnvs :
            /\ a.refresh = "rejected"
            /\ (a.extRefresh => x.present /\ x.expired /\ x.refresh)
            /\ (a.rf => a.xo = "ok")
            /\ (a.xo # "rejected" => x.present /\ (~x.expired \/ a.extRefresh))}

(***************************************************************************)
(* super().ensure_active_token(token) of the authlib client: an unexpired  *)
(* token is active; an expired token with a refresh_token is refreshed at  *)
(* the token endpoint (which may reject it); otherwise the check fails.    *)
(***************************************************************************)
BaseEnsureActive(tok, a) ==
    IF ~tok.expired
    THEN [ret |-> TRUE, err |-> NoErr, tok |-> tok, refreshes |-> 0]
    ELSE IF tok.refresh
    THEN IF a.refresh = "ok"
         THEN [ret |-> TRUE, err |-> NoErr,
               tok |-> Tok(FreshId(tok), FALSE, TRUE), refreshes |-> 1]
         ELSE [ret |-> FALSE, err |-> Err("OAuthError", 0), tok |-> tok, refreshes |-> 1]
    ELSE [ret |-> FALSE, err |-> NoErr, tok |-> tok, refreshes |-> 0]

(***************************************************************************)
(* external_client.ensure_active_token(external_client.token): whether the *)
(* identity token is usable, after an in-place refresh where one exists.   *)
(***************************************************************************)
ExtEnsureActive(x, a) ==
    IF ~x.present THEN [ret |-> FALSE, ext |-> x]
    ELSE IF ~x.expired THEN [ret |-> TRUE, ext |-> x]
    ELSE IF x.refresh /\ a.extRefresh
    THEN [ret |-> TRUE, ext |-> [x EXCEPT !.expired = FALSE]]
    ELSE [ret |-> FALSE, ext |-> x]

(***************************************************************************)
(* request(): the translation of what super().request raised.              *)
(***************************************************************************)
SslCertErr == Err("SSLCertVerificationError", 0)
Unauthorized == Err("PolarisUnauthorizedError", 0)
\* faulty variant: a certificate failure is re-raised like any other connect failure
TranslateNoSsl(e) ==
    IF e.cls = "ConnectError" THEN e
    ELSE IF e.cls \in {"MissingTokenError", "InvalidTokenError", "HTTPStatusError", "OAuthError"}
    THEN IF e.cls = "HTTPStatusError" /\ e.status # 401 THEN e ELSE Unauthorized
    ELSE e

Translate(e) ==
    IF e.cls = "ConnectError"
    THEN IF e.ssl THEN SslCertErr ELSE e
    ELSE IF e.cls \in {"MissingTokenError", "InvalidTokenError", "HTTPStatusError", "OAuthError"}
    THEN IF e.cls = "HTTPStatusError" /\ e.status # 401 THEN e ELSE Unauthorized
    ELSE e

(***************************************************************************)
(* self.fetch_token(): the token exchange.  The body of the grant reads    *)
(* external_client.token["access_token"]; the POST goes through request()  *)
(* with the client's own auth, so a connect failure is translated there;   *)
(* a 5xx answer raises its status error and an error answer an OAuthError. *)
(* The endpoint does not accept an expired subject token.                  *)
(***************************************************************************)
FetchToken(x, a, newId) ==
    IF ~x.present THEN [err |-> Err("TypeError", 0), tok |-> NoToken]
    ELSE IF a.xo = "ssl" THEN [err |-> Translate(ConnectErr(TRUE)), tok |-> NoToken]
    ELSE IF a.xo = "refused" THEN [err |-> Translate(ConnectErr(FALSE)), tok |-> NoToken]
    ELSE IF a.xo = "http500" THEN [err |-> Err("HTTPStatusError", 500), tok |-> NoToken]
    ELSE IF a.xo = "ok" /\ ~x.expired
    THEN [err |-> NoErr, tok |-> Tok(newId, FALSE, a.rf)]
    ELSE [err |-> Err("OAuthError", 0), tok |-> NoToken]

(***************************************************************************)
(* PolarisHubClient.ensure_active_token(token): the base check; if it      *)
(* fails, the identity token's check; if that passes, a token exchange     *)
(* whose result becomes self.token.                                        *)
(*   exchanges    : token exchanges requested                              *)
(*   refreshes    : refresh_token grants requested by the base check       *)
(*   extConsulted : the identity token was checked                         *)
(***************************************************************************)
EatResult(ret, err, tok, x, nx, nr, consulted) ==
    [ret |-> ret, err |-> err, tok |-> tok, ext |-> x,
     exchanges |-> nx, refreshes |-> nr, extConsulted |-> consulted]

\* faulty variant: the fetched token is not stored
EatAfterFetchKeepOld(f, tok, x) ==
    IF f.err.cls # "none" THEN EatResult(FALSE, f.err, tok, x, 1, 0, TRUE)
    ELSE EatResult(TRUE, NoErr, tok, x, 1, 0, TRUE)

\* faulty variant: a failed exchange is requested a second time
EatAfterFetchRetry(f, tok, x) ==
    IF f.err.cls # "none" THEN EatResult(FALSE, f.err, tok, x, 2, 0, TRUE)
    ELSE EatResult(TRUE, NoErr, f.tok, x, 1, 0, TRUE)

\* self.token = self.fetch_token(); return True
EatAfterFetch(f, tok, x) ==
    IF f.err.cls # "none" THEN EatResult(FALSE, f.err, tok, x, 1, 0, TRUE)
    ELSE EatResult(TRUE, NoErr, f.tok, x, 1, 0, TRUE)

\* faulty variant: an inactive identity token does not end the check with False
EatAfterExtTrustsHub(e, tok, a) ==
    IF ~e.ret THEN EatResult(TRUE, NoErr, tok, e.ext, 0, 0, TRUE)
    ELSE EatAfterFetch(FetchToken(e.ext, a, FreshId(tok)), tok, e.ext)

\* faulty variant: the exchange is requested whatever the identity token's check said
EatAfterExtFetchAnyway(e, tok, a) ==
    EatAfterFetch(FetchToken(e.ext, a, FreshId(tok)), tok, e.ext)

\* if not self.external_client.ensure_active_token(...): return False
EatAfterExt(e, tok, a) ==
    IF ~e.ret THEN EatResult(FALSE, NoErr, tok, e.ext, 0, 0, TRUE)
    ELSE EatAfterFetch(FetchToken(e.ext, a, FreshId(tok)), tok, e.ext)

\* faulty variant: the early return for an active token is missing
EatAfterBaseAlwaysExt(b, tok, x, a) ==
    IF b.err.cls # "none" THEN EatResult(FALSE, b.err, tok, x, 0, b.refreshes, FALSE)
    ELSE EatAfterExt(ExtEnsureActive(x, a), tok, a)

\* is_active = super().ensure_active_token(token); if is_active: return True
EatAfterBase(b, tok, x, a) ==
    IF b.err.cls # "none" THEN EatResult(FALSE, b.err, tok, x, 0, b.refreshes, FALSE)
    ELSE IF b.ret THEN EatResult(TRUE, NoErr, b.tok, x, 0, b.refreshes, FALSE)
    ELSE EatAfterExt(ExtEnsureActive(x, a), tok, a)

EnsureActiveToken(tok, x, a) == EatAfterBase(BaseEnsureActive(tok, a), tok, x, a)

(***************************************************************************)
(* What the network answers to one request: a connect failure (with or     *)
(* without the certificate text) or a response.                            *)
(***************************************************************************)
NetEnvs == {[conn |-> c, resp |-> NoResp] : c \in {"ssl", "refused"}}
              \cup {[conn |-> "ok", resp |-> r] : r \in Responses}

(***************************************************************************)
(* super().request(method, url, withhold_token, auth, ...) of the authlib  *)
(* client: with the client's default auth and the token not withheld, the  *)
(* token must exist and pass ensure_active_token, and is then attached;    *)
(* otherwise the request is sent as it is.                                 *)
(*   attempts: how often the request was put on the wire                   *)
(*   cred    : the hub token was attached                                  *)
(*   checked : "passed" / "skipped", the activity check before the send    *)
(***************************************************************************)
ReqResult(err, resp, n, cred, checked, tok, x, nx, nr) ==
    [err |-> err, resp |-> resp, attempts |-> n, cred |-> cred, checked |-> checked,
     tok |-> tok, ext |-> x, exchanges |-> nx, refreshes |-> nr]

Send(n, cred, checked, tok, x, nx, nr) ==
    IF n.conn = "ok"
    THEN ReqResult(NoErr, n.resp, 1, cred, checked, tok, x, nx, nr)
    ELSE ReqResult(ConnectErr(n.conn = "ssl"), NoResp, 1, cred, checked, tok, x, nx, nr)

\* if not self.ensure_active_token(self.token): raise InvalidTokenError()
SendChecked(e, n) ==
    IF e.err.cls # "none"
    THEN ReqResult(e.err, NoResp, 0, FALSE, "failed", e.tok, e.ext, e.exchanges, e.refreshes)
    ELSE IF ~e.ret
    THEN ReqResult(Err("InvalidTokenError", 0), NoResp, 0, FALSE, "failed",
                   e.tok, e.ext, e.exchanges, e.refreshes)
    ELSE Send(n, TRUE, "passed", e.tok, e.ext, e.exchanges, e.refreshes)

SuperRequest(tok, x, withhold, authDefault, a, n) ==
    IF ~withhold /\ authDefault
    THEN IF ~tok.present
         THEN ReqResult(Err("MissingTokenError", 0), NoResp, 0, FALSE, "failed", tok, x, 0, 0)
         ELSE SendChecked(EnsureActiveToken(tok, x, a), n)
    ELSE Send(n, FALSE, "skipped", tok, x, 0, 0)

(***************************************************************************)
(* PolarisHubClient.request(method, url, withhold_token, auth, ...): one   *)
(* call of super().request, whose exception is translated.                 *)
(***************************************************************************)
Translated(r) == [r EXCEPT !.err = Translate(r.err)]
Request(tok, x, withhold, authDefault, a, n) ==
    Translated(SuperRequest(tok, x, withhold, authDefault, a, n))

(***************************************************************************)
(* response.raise_for_status(): a status error for any non-2xx response.   *)
(***************************************************************************)
RaiseForStatus(resp) ==
    IF Is2xx(resp.status) THEN NoErr ELSE Err("HTTPStatusError", resp.status)

(***************************************************************************)
(* PolarisHubClient._base_request_to_hub(url, method, ...).                *)
(*   parsed: how often response.json() was called                          *)
(*   isJson: the value returned is the parsed body, not the Response       *)
(***************************************************************************)
BaseResult(r, err, parsed, isJson) ==
    [req |-> r, err |-> err, parsed |-> parsed, isJson |-> isJson]

\* faulty variant: a 500 is handled like every other status error
BaseHandleNo500(r) ==
    IF r.err.cls # "none" THEN BaseResult(r, r.err, 0, FALSE)
    ELSE IF RaiseForStatus(r.resp).cls # "none"
    THEN IF r.resp.body.json
         THEN BaseResult(r, HubErr(DumpsSorted(ParseJson(r.resp.body))), 1, FALSE)
         ELSE BaseResult(r, Err("JSONDecodeError", 0), 1, FALSE)
    ELSE BaseResult(r, NoErr, 1, r.resp.body.json)

\* the try / except HTTPStatusError around response.raise_for_status()
BaseHandle(r) ==
    IF r.err.cls # "none" THEN BaseResult(r, r.err, 0, FALSE)
    ELSE IF RaiseForStatus(r.resp).cls # "none"
    THEN IF r.resp.status = 500
         THEN BaseResult(r, RaiseForStatus(r.resp), 0, FALSE)
         ELSE IF r.resp.body.json
         THEN BaseResult(r, HubErr(DumpsSorted(ParseJson(r.resp.body))), 1, FALSE)
         ELSE BaseResult(r, Err("JSONDecodeError", 0), 1, FALSE)
    ELSE BaseResult(r, NoErr, 1, r.resp.body.json)

BaseRequestToHub(tok, x, a, n) == BaseHandle(Request(tok, x, FALSE, TRUE, a, n))

(***************************************************************************)
(* The record of one outbound request, and of how a call ended.            *)
(***************************************************************************)
\* the requests whose answer the call goes on to read as JSON
BodyRead == {"meta", "announce", "lookup"}
Entry(kind, r) ==
    [kind |-> kind, cred |-> r.cred, checked |-> r.checked,
     tokExpired |-> r.cred /\ r.tok.expired, status |-> r.resp.status,
     json |-> kind \in BodyRead /\ r.resp.body.json]
\* the log after a request: only a request put on the wire is recorded
Logged(l, kind, r) == IF r.attempts > 0 THEN Append(l, Entry(kind, r)) ELSE l

NoLast ==
    [op |-> "none", stage |-> "none", err |-> NoErr, ret |-> FALSE, resp |-> NoResp,
     parsed |-> 0, exchanges |-> 0, refreshes |-> 0, extConsulted |-> FALSE,
     attempts |-> 0, conn |-> "none", interactive |-> 0, cause |-> "none",
     overwrite |-> FALSE, active |-> FALSE,
     mode |-> "none", as_consolidated |-> FALSE, fs |-> 0, key |-> 0,
     tok0 |-> NoToken, ext0 |-> NoToken, dt0 |-> 0]
\* how a call ended at a request with result r
LastOf(op, stage, err, r) ==
    [NoLast EXCEPT !.op = op, !.stage = stage, !.err = err, !.resp = r.resp,
                   !.exchanges = r.exchanges, !.refreshes = r.refreshes,
                   !.attempts = r.attempts]

(***************************************************************************)
(* The keys of the source array store, numbered in the order in which      *)
(* sorted(source.keys()) lists them: the root group's metadata, the        *)
(* consolidated metadata, then the chunks.  A store maps each key to       *)
(* "absent", to "source" (the bytes the source store holds under the key)  *)
(* or to "other" (different bytes).                                        *)
(***************************************************************************)
ZGroup == 1
ZMetadata == 2
StoreKeys == 1..(MaxChunks + 2)
Chunks == 3..(MaxChunks + 2)
EmptyStore == [k \in StoreKeys |-> "absent"]
IfExists == {"raise", "replace", "skip"}

(***************************************************************************)
(* The table of a dataset and its parquet file.  A table is the sequence   *)
(* of its rows; the file is the rows between the two magic words of the    *)
(* format; a byte string is a sequence of such words.                      *)
(***************************************************************************)
Tables == {<<"a">>, <<"a", "b">>}
\* dataset.table.to_parquet(buffer, engine="auto"): the content of the buffer
ToParquet(table) == <<"PAR1">> \o table \o <<"PAR1">>
\* parquet_size = len(buffer.getbuffer())
ParquetSize(buffer) == Len(buffer)
\* md5(buffer.getbuffer()).hexdigest(): no two byte strings of the model collide
Md5(bytes) == <<"md5">> \o bytes
\* load_fn(BytesIO(response.content)) with pd.read_parquet: the table of a
\* well-formed file, an error for any other content
ReadParquet(bytes) ==
    IF Len(bytes) >= 2 /\ bytes[1] = "PAR1" /\ bytes[Len(bytes)] = "PAR1"
    THEN [err |-> NoErr, table |-> SubSeq(bytes, 2, Len(bytes) - 1)]
    ELSE [err |-> Err("ArrowInvalid", 0), table |-> <<>>]
NoBytes == [held |-> FALSE, bytes |-> <<>>]
Held(bytes) == [held |-> TRUE, bytes |-> bytes]

(***************************************************************************)
(* Checksums.  The digest of a dataset covers its table and, for a dataset *)
(* with array content, the content of the array store ("source": as the    *)
(* uploader's store, "other": anything else; "none": no array content).    *)
(* The manifest lists the chunks of a store with their digests.            *)
(***************************************************************************)
Checksum(table, array) == <<"md5", table, array>>
Manifest(store) == {<<c, store[c]>> : c \in {k \in Chunks : store[k] # "absent"}}
SourceStore == [k \in StoreKeys |-> "source"]
ChecksumStrategies == {"verify", "verify_unless_zarr", "ignore"}
\* should_verify_checksum(strategy, dataset)
ShouldVerifyChecksum(strategy, uses_zarr) ==
    strategy = "verify" \/ (strategy = "verify_unless_zarr" /\ ~uses_zarr)
\* artifact.verify_checksum(): the digest is computed again and compared with
\* the expected one
VerifyChecksum(computed, expected) ==
    IF computed # expected THEN Err("PolarisChecksumError", 0) ELSE NoErr

(***************************************************************************)
(* What the hub holds of the dataset: the JSON it was announced and the    *)
(* bytes of the table it received.  stores = FALSE: a hub whose content is *)
(* not followed; it may answer with any content.                           *)
(***************************************************************************)
NoAnnounce == [made |-> FALSE, size |-> 0, md5 |-> <<>>, manifest |-> {},
               md5Sum |-> <<>>, uses_zarr |-> FALSE]
\* the json of the announce: the size and digest of the buffer, the manifest
\* the dataset holds, the fields of the dataset with its digest
Announce(buffer, table, uses_zarr) ==
    [made |-> TRUE, size |-> ParquetSize(buffer), md5 |-> Md5(buffer),
     manifest |-> IF uses_zarr THEN Manifest(SourceStore) ELSE {},
     md5Sum |-> Checksum(table, IF uses_zarr THEN "source" ELSE "none"),
     uses_zarr |-> uses_zarr]
HubAny == [stores |-> FALSE, announced |-> NoAnnounce, table |-> NoBytes]
HubEmpty == [stores |-> TRUE, announced |-> NoAnnounce, table |-> NoBytes]
\* the request reached the hub (or the storage) and was answered with success
Accepted(r) == r.attempts > 0 /\ Is2xx(r.resp.status)
\* the hub after it accepted a request that carried something to keep
HubAnnounced(h, a) == IF h.stores THEN [h EXCEPT !.announced = a] ELSE h
HubReceived(h, bytes) == IF h.stores THEN [h EXCEPT !.table = Held(bytes)] ELSE h
\* the metadata a hub can answer the metadata request with
Metas == [md5Sum : {Checksum(t, "none") : t \in Tables}, uses_zarr : {FALSE}]
            \cup [md5Sum : {Checksum(t, "source") : t \in Tables}, uses_zarr : {TRUE}]
MetaOf(a) == [md5Sum |-> a.md5Sum, uses_zarr |-> a.uses_zarr]
MetaServed(h) ==
    IF ~h.stores THEN Metas
    ELSE IF h.announced.made THEN {MetaOf(h.announced)} ELSE {}
\* the bytes a signed GET of the table can be answered with
BytesServed(h) ==
    IF ~h.stores THEN {ToParquet(t) : t \in Tables} \cup {<<>>}
    ELSE IF h.table.held THEN {h.table.bytes} ELSE {}

\* the array content a downloaded dataset is found to have when it is digested
ArraysFound(uses_zarr) == IF uses_zarr THEN {"source", "other"} ELSE {"none"}
\* the digest of a benchmark covers its own fields and the digest of its dataset
BenchChecksum(dataset_md5sum) == <<"md5", "benchmark", dataset_md5sum>>
\* the md5Sum a hub can report for the benchmark
BenchDigests == {BenchChecksum(Checksum(t, "none")) : t \in Tables}

\*   bench        : the call is get_benchmark (get_dataset runs inside it)
\*   strategy     : the verify_checksum argument
\*   meta, bmd5Sum: what the hub reported for the dataset, for the benchmark
\*   table        : the table of the dataset returned
\*   md5sum, recomputed: the digest the dataset was given, and how often it
\*                  was computed locally; bench_ likewise for the benchmark
NoMeta == [md5Sum |-> <<>>, uses_zarr |-> FALSE]
NoDl == [bench |-> FALSE, strategy |-> "none", meta |-> NoMeta, bmd5Sum |-> <<>>,
         table |-> <<>>, md5sum |-> <<>>, recomputed |-> 0,
         bench_md5sum |-> <<>>, bench_recomputed |-> 0]

(***************************************************************************)
(* BenchmarkResults: the name of a results object.  A string is the        *)
(* sequence of its characters; None is a name that was not given.          *)
(***************************************************************************)
None == [given |-> FALSE, chars |-> <<>>]
Some(chars) == [given |-> TRUE, chars |-> chars]
\* the characters names are drawn from: letters, a digit, the two marks a
\* name may hold, and marks it may not hold
NameChars == {"a", "Z", "7", "_", "-", " ", ":", "."}
NameArgs == {None} \cup {Some(s) : s \in UNION {[1..k -> NameChars] : k \in 0..MaxNameLen}}
AsciiLetters == {"a", "Z"}
DigitChars == <<"0", "1", "2", "3", "4", "5", "6", "7", "8", "9">>
\* valid_characters = string.ascii_letters + string.digits + "_-"
ValidCharacters == AsciiLetters \cup {DigitChars[i] : i \in 1..10} \cup {"_", "-"}
\* all(c in valid_characters for c in v)
AllValid(chars) == \A i \in 1..Len(chars) : chars[i] \in ValidCharacters
\* the field validator of name: None passes, any other name passes when all
\* its characters are valid
ValidateName(v) ==
    IF ~v.given THEN NoErr
    ELSE IF ~AllValid(v.chars) THEN Err("InvalidResultError", 0)
    ELSE NoErr

\* n written with w decimal digits
Decimal(n, w) == [i \in 1..w |-> DigitChars[((n \div (10 ^ (w - i))) % 10) + 1]]
\* the instants datetime.now() gives, within one day
Datetimes == {[hour |-> h, second |-> s, microsecond |-> u] :
                 h \in {9, 10}, s \in {0, 30}, u \in {0, 123456}}
\* str(datetime): "YYYY-MM-DD HH:MM:SS", with ".ffffff" unless microsecond is 0
StrDatetime(d) ==
    Decimal(2024, 4) \o <<"-">> \o Decimal(5, 2) \o <<"-">> \o Decimal(1, 2) \o <<" ">>
       \o Decimal(d.hour, 2) \o <<":">> \o Decimal(20, 2) \o <<":">> \o Decimal(d.second, 2)
       \o (IF d.microsecond = 0 THEN <<>> ELSE <<".">> \o Decimal(d.microsecond, 6))
\* __init__ after super().__init__(**data): a missing name is filled in
\* from the time of creation (and the user name, when one is set)
FilledName(name, user_name, created_at) ==
    IF ~name.given
    THEN IF ~user_name.given
         THEN Some(StrDatetime(created_at))
         ELSE Some(user_name.chars \o <<"_">> \o StrDatetime(created_at))
    ELSE name
\*   made : an instance exists;  arg : the name given to the constructor;
\*   name : self.name
NoRes == [made |-> FALSE, arg |-> None, name |-> None]

(***************************************************************************)
(* MinMaxSplit.  Samples are numbered from 0; an argument that may be None *)
(* is NoInt or IntOf(v).                                                   *)
(***************************************************************************)
NoInt == [given |-> FALSE, v |-> 0]
IntOf(v) == [given |-> TRUE, v |-> v]
\* sklearn's _validate_shuffle_split for sizes that are None or integers,
\* with default_test_size = 0.1 when both are None: n_test = ceil(0.1 * n)
ValidateShuffleSplit(n_samples, test_size, train_size) ==
    IF test_size.given /\ (test_size.v >= n_samples \/ test_size.v <= 0)
    THEN [err |-> Err("ValueError", 0), n_train |-> 0, n_test |-> 0]
    ELSE IF train_size.given /\ (train_size.v >= n_samples \/ train_size.v <= 0)
    THEN [err |-> Err("ValueError", 0), n_train |-> 0, n_test |-> 0]
    ELSE \* the sizes as given, or as the rest of the samples
         IF ~test_size.given /\ ~train_size.given
         THEN IF n_samples - ((n_samples + 9) \div 10) = 0
              THEN [err |-> Err("ValueError", 0), n_train |-> 0, n_test |-> 0]
              ELSE [err |-> NoErr, n_train |-> n_samples - ((n_samples + 9) \div 10),
                    n_test |-> (n_samples + 9) \div 10]
         ELSE IF ~train_size.given
         THEN [err |-> NoErr, n_train |-> n_samples - test_size.v, n_test |-> test_size.v]
         ELSE IF ~test_size.given
         THEN [err |-> NoErr, n_train |-> train_size.v, n_test |-> n_samples - train_size.v]
         ELSE IF train_size.v + test_size.v > n_samples
         THEN [err |-> Err("ValueError", 0), n_train |-> 0, n_test |-> 0]
         ELSE [err |-> NoErr, n_train |-> train_size.v, n_test |-> test_size.v]

\* if self._smiles is None and not is_smiles: raise ValueError(...)
SmilesCheck(smiles, is_smiles) ==
    IF ~smiles.given /\ ~is_smiles THEN Err("ValueError", 0) ELSE NoErr
\* base_seed = self.random_state; if base_seed is None: base_seed = 0
BaseSeed(random_state) == IF ~random_state.given THEN 0 ELSE random_state.v
\* smiles = X if is_smiles else self._smiles: the number of molecules
PoolSize(n_samples, is_smiles, smiles) == IF is_smiles THEN n_samples ELSE smiles.v
\* dm.pick_diverse(mols, npick, seed): the picks it can return, npick
\* distinct indices of mols; no pick when npick exceeds the molecules
Picks(pool, npick) == {p \in SUBSET (0..(pool - 1)) : Cardinality(p) = npick}
\* a seed of 0 or more fixes the picks; the picks of a seed are remembered
Remembered(memo, seed) == {m[2] : m \in {x \in memo : x[1] = seed}}
PicksFor(memo, pool, npick, seed) ==
    IF seed >= 0 /\ Remembered(memo, seed) # {}
    THEN Remembered(memo, seed)
    ELSE Picks(pool, npick)
Remember(memo, seed, picked) ==
    IF seed >= 0 THEN memo \cup {<<seed, picked>>} ELSE memo
\* np.setdiff1d(np.arange(n_samples), picked_samples)
SetDiff1d(n_samples, picked) == (0..(n_samples - 1)) \ picked

\*   n_splits, test_size, train_size, random_state, smiles: the splitter
\*             (smiles: the number of SMILES given to the constructor)
\*   n_samples, is_smiles: the input X of its calls
\*   calls   : calls of _iter_indices begun
\*   i, base_seed, n_train: the locals of the generator
\*   yielded : the splits the call in progress has yielded
\*   before  : the splits the call before it yielded
\*   memo    : what pick_diverse returned for the seeds it was given
NoSplit == [made |-> FALSE, n_splits |-> 0, test_size |-> NoInt, train_size |-> NoInt,
            random_state |-> NoInt, smiles |-> NoInt, n_samples |-> 0,
            is_smiles |-> FALSE, calls |-> 0, i |-> 0, base_seed |-> 0,
            n_train |-> 0, yielded |-> <<>>, before |-> <<>>, memo |-> {}]
Splitters ==
    {[NoSplit EXCEPT !.made = TRUE, !.n_splits = k, !.test_size = ts, !.train_size = tr,
                     !.random_state = rs, !.smiles = sm, !.n_samples = n,
                     !.is_smiles = x] :
        k \in 0..MaxSplits,
        ts \in {NoInt} \cup {IntOf(v) : v \in 1..MaxSamples},
        tr \in {NoInt} \cup {IntOf(v) : v \in 1..MaxSamples},
        rs \in {NoInt} \cup {IntOf(v) : v \in -1..1},
        sm \in {NoInt} \cup {IntOf(v) : v \in 1..(MaxSamples + 1)},
        n \in 1..MaxSamples,
        x \in BOOLEAN}

\*   buffer, serialized : the BytesIO buffer, how often the table was written to it
\*   announced          : the json of the announce
\*   sent               : the content of the PUT to the signed destination
\*   src_written        : the keys of the source store written during the call
NoUp == [timeout |-> 0, uses_zarr |-> FALSE, if_exists |-> "replace", saved |-> 0,
         dt0 |-> 0, dest |-> EmptyStore, dest0 |-> EmptyStore, next |-> 0,
         license |-> FALSE, owner_set |-> FALSE,
         buffer |-> <<>>, serialized |-> 0, announced |-> NoAnnounce,
         sent |-> NoBytes, src_written |-> {}]

(***************************************************************************)
(* The state after construction: the tokens are what the caches held (or   *)
(* None), the settings hold some default timeout.                          *)
(***************************************************************************)
Init ==
    /\ token \in Tokens
    /\ ext \in IdentityTokens
    /\ default_timeout \in 1..MaxTimeout
    /\ pc = "idle"
    /\ up = NoUp
    /\ log = <<>>
    /\ last = NoLast
    /\ dl = NoDl
    /\ dataset = [table |-> <<"a">>]
    /\ hub = HubAny
    /\ res = NoRes
    /\ split = NoSplit

(***************************************************************************)
(* Time passes: a token reaches its expiry instant.                        *)
(***************************************************************************)
ExpireHubToken ==
    /\ pc # "done"
    /\ token.present /\ ~token.expired
    /\ token' = [token EXCEPT !.expired = TRUE]
    /\ UNCHANGED <<ext, default_timeout, pc, up, log, last>>
    /\ UNCHANGED <<dl, dataset, hub, objects>>

ExpireIdentityToken ==
    /\ pc # "done"
    /\ ext.present /\ ~ext.expired
    /\ ext' = [ext EXCEPT !.expired = TRUE]
    /\ UNCHANGED <<token, default_timeout, pc, up, log, last>>
    /\ UNCHANGED <<dl, dataset, hub, objects>>

(***************************************************************************)
(* A call of ensure_active_token(self.token).                              *)
(***************************************************************************)
CallEnsureActiveToken ==
    /\ pc = "idle"
    /\ token.present
    /\ \E a \in AuthEnvs(token, ext) :
       \E e \in {EnsureActiveToken(token, ext, a)} :
         /\ token' = e.tok
         /\ ext' = e.ext
         /\ last' = [NoLast EXCEPT !.op = "ensure_active_token", !.err = e.err,
                        !.ret = e.ret, !.exchanges = e.exchanges,
                        !.refreshes = e.refreshes, !.extConsulted = e.extConsulted,
                        !.tok0 = token, !.ext0 = ext]
    /\ log' = <<>>
    /\ pc' = "done"
    /\ UNCHANGED <<default_timeout, up>>
    /\ UNCHANGED <<dl, dataset, hub, objects>>

(***************************************************************************)
(* A call of fetch_token(): the token exchange with the current identity   *)
(* token as subject token; the token the endpoint issues is stored.        *)
(***************************************************************************)
\* what became of the POST to the token endpoint
FetchConn(x, a) ==
    IF ~x.present THEN "unsent"
    ELSE IF a.xo \in {"ssl", "refused"} THEN a.xo ELSE "ok"

CallFetchToken ==
    /\ pc = "idle"
    /\ \E a \in XEnvs(ext) :
       \E f \in {FetchToken(ext, a, FreshId(token))} :
         /\ token' = IF f.err.cls = "none" THEN f.tok ELSE token
         /\ last' = [NoLast EXCEPT !.op = "fetch_token", !.err = f.err,
                        !.ret = (f.err.cls = "none"), !.exchanges = 1,
                        !.conn = FetchConn(ext, a),
                        !.resp = [NoResp EXCEPT !.status = f.err.status],
                        !.tok0 = token, !.ext0 = ext]
    /\ log' = <<>>
    /\ pc' = "done"
    /\ UNCHANGED <<ext, default_timeout, up>>
    /\ UNCHANGED <<dl, dataset, hub, objects>>

(***************************************************************************)
(* A call of request() (get, put, ...): with the client's default auth,    *)
(* with the token withheld, or with auth=None.                             *)
(***************************************************************************)
AuthModes == {[withhold |-> FALSE, authDefault |-> TRUE],
              [withhold |-> TRUE, authDefault |-> TRUE],
              [withhold |-> FALSE, authDefault |-> FALSE]}
CallRequest ==
    /\ pc = "idle"
    /\ \E mode \in AuthModes :
       \E a \in (IF ~mode.withhold /\ mode.authDefault THEN AuthEnvs(token, ext)
                                                       ELSE {QuietEnv}) :
       \E n \in NetEnvs :
       \E r \in {Request(token, ext, mode.withhold, mode.authDefault, a, n)} :
         /\ token' = r.tok
         /\ ext' = r.ext
         /\ log' = Logged(<<>>, "direct", r)
         /\ last' = [NoLast EXCEPT !.op = "request", !.stage = "direct", !.err = r.err,
                        !.resp = r.resp, !.exchanges = r.exchanges,
                        !.refreshes = r.refreshes, !.attempts = r.attempts,
                        !.conn = IF r.attempts = 0 THEN "unsent" ELSE n.conn,
                        !.tok0 = token, !.ext0 = ext]
    /\ pc' = "done"
    /\ UNCHANGED <<default_timeout, up>>
    /\ UNCHANGED <<dl, dataset, hub, objects>>

(***************************************************************************)
(* A call of an endpoint that is one _base_request_to_hub (list_datasets,  *)
(* list_benchmarks, upload_results, upload_benchmark).                     *)
(***************************************************************************)
CallBaseRequest ==
    /\ pc = "idle"
    /\ \E a \in AuthEnvs(token, ext), n \in NetEnvs :
       \E b \in {BaseRequestToHub(token, ext, a, n)} :
         /\ token' = b.req.tok
         /\ ext' = b.req.ext
         /\ log' = Logged(<<>>, "hub", b.req)
         /\ last' = [NoLast EXCEPT !.op = "base_request", !.stage = "hub", !.err = b.err,
                        !.resp = b.req.resp, !.parsed = b.parsed,
                        !.exchanges = b.req.exchanges, !.refreshes = b.req.refreshes,
                        !.attempts = b.req.attempts]
    /\ pc' = "done"
    /\ UNCHANGED <<default_timeout, up>>
    /\ UNCHANGED <<dl, dataset, hub, objects>>

(***************************************************************************)
(* login(overwrite, auto_open_browser).                                    *)
(***************************************************************************)
\* the activity check login makes: only if not overwrite and a token is stored
LoginCheck(overwrite, tok, x, a) ==
    IF ~overwrite /\ tok.present THEN EnsureActiveToken(tok, x, a)
    ELSE EatResult(FALSE, NoErr, tok, x, 0, 0, FALSE)
\* overwrite or self.token is None or not self.ensure_active_token(self.token)
LoginNeeded(overwrite, tok, e) == overwrite \/ ~tok.present \/ ~e.ret

Login ==
    /\ pc = "idle"
    /\ pc' = "done"
    /\ log' = <<>>
    /\ \E overwrite \in BOOLEAN :
       \E a \in (IF ~overwrite /\ token.present THEN AuthEnvs(token, ext) ELSE {QuietEnv}) :
       \E e \in {LoginCheck(overwrite, token, ext, a)} :
         IF e.err.cls # "none"
         THEN /\ token' = e.tok
              /\ ext' = e.ext
              /\ last' = [NoLast EXCEPT !.op = "login", !.stage = "check", !.err = e.err,
                             !.exchanges = e.exchanges, !.refreshes = e.refreshes,
                             !.overwrite = overwrite,
                             !.tok0 = token, !.ext0 = ext]
         ELSE IF ~LoginNeeded(overwrite, token, e)
         THEN /\ token' = e.tok
              /\ ext' = e.ext
              /\ last' = [NoLast EXCEPT !.op = "login", !.stage = "check", !.ret = TRUE,
                             !.exchanges = e.exchanges, !.refreshes = e.refreshes,
                             !.overwrite = overwrite, !.active = e.ret,
                             !.tok0 = token, !.ext0 = ext]
         ELSE \/ \* the interactive login does not complete
                 /\ token' = e.tok
                 /\ ext' = e.ext
                 /\ last' = [NoLast EXCEPT !.op = "login", !.stage = "interactive",
                                !.err = Err("AuthenticationError", 0),
                                !.exchanges = e.exchanges, !.interactive = 1,
                                !.overwrite = overwrite, !.active = e.ret,
                                !.tok0 = token, !.ext0 = ext]
              \/ \* the interactive login yields an identity token; then the exchange
                 \E rfx \in BOOLEAN :
                 \E xa \in XEnvs(Tok(1, FALSE, rfx)) :
                 \E f \in {FetchToken(Tok(1, FALSE, rfx), xa, FreshId(e.tok))} :
                   /\ ext' = Tok(1, FALSE, rfx)
                   /\ token' = IF f.err.cls = "none" THEN f.tok ELSE e.tok
                   /\ last' = [NoLast EXCEPT !.op = "login", !.stage = "exchange",
                                  !.err = f.err, !.ret = (f.err.cls = "none"),
                                  !.exchanges = e.exchanges + 1, !.interactive = 1,
                                  !.overwrite = overwrite, !.active = e.ret,
                                  !.tok0 = token, !.ext0 = ext]
    /\ UNCHANGED <<default_timeout, up>>
    /\ UNCHANGED <<dl, dataset, hub, objects>>

(***************************************************************************)
(* get_dataset(owner, name): the metadata request, the request for the     *)
(* table content (expected to answer 307 with the signed URL), the GET of  *)
(* the signed URL without credentials.                                     *)
(***************************************************************************)
\* the call in progress: get_dataset, alone or inside get_benchmark
DlOp == IF dl.bench THEN "get_benchmark" ELSE "get_dataset"

\* response = self._base_request_to_hub(url=f"/benchmark/{owner}/{name}", method="GET")
GetBenchmarkMeta ==
    /\ pc = "idle"
    /\ \E a \in AuthEnvs(token, ext), n \in NetEnvs :
       \E b \in {BaseRequestToHub(token, ext, a, n)} :
         /\ token' = b.req.tok
         /\ ext' = b.req.ext
         /\ log' = Logged(<<>>, "bench_meta", b.req)
         /\ IF b.err.cls # "none"
            THEN /\ pc' = "done"
                 /\ last' = [LastOf("get_benchmark", "bench_meta", b.err, b.req)
                                EXCEPT !.parsed = b.parsed]
                 /\ UNCHANGED dl
            ELSE IF ~b.isJson
            THEN \* response["dataset"] on a Response object
                 /\ pc' = "done"
                 /\ last' = [LastOf("get_benchmark", "bench_meta", Err("TypeError", 0), b.req)
                                EXCEPT !.parsed = b.parsed]
                 /\ UNCHANGED dl
            ELSE /\ pc' = "gb_dataset"
                 /\ last' = NoLast
                 /\ dl' = [NoDl EXCEPT !.bench = TRUE]
    /\ UNCHANGED <<default_timeout, up>>
    /\ UNCHANGED <<dataset, hub, objects>>

\* response = self._base_request_to_hub(url=f"/dataset/{owner}/{name}", method="GET")
GetDatasetMeta ==
    /\ pc \in {"idle", "gb_dataset"}
    /\ \E a \in AuthEnvs(token, ext), n \in NetEnvs :
       \E b \in {BaseRequestToHub(token, ext, a, n)} :
         /\ token' = b.req.tok
         /\ ext' = b.req.ext
         /\ log' = Logged(log, "meta", b.req)
         /\ IF b.err.cls # "none"
            THEN /\ pc' = "done"
                 /\ last' = [LastOf(DlOp, "meta", b.err, b.req)
                                EXCEPT !.parsed = b.parsed]
            ELSE IF ~b.isJson
            THEN \* response["tableContent"] on a Response object
                 /\ pc' = "done"
                 /\ last' = [LastOf(DlOp, "meta", Err("TypeError", 0), b.req)
                                EXCEPT !.parsed = b.parsed]
            ELSE /\ pc' = "gd_lookup"
                 /\ last' = NoLast
    /\ UNCHANGED <<default_timeout, up>>
    /\ UNCHANGED <<dl, dataset, hub, objects>>

\* faulty variant: the status of the answer is not looked at
LookupOutcomeNoRaise(r) ==
    IF r.err.cls # "none" THEN r.err
    ELSE IF ~r.resp.body.json THEN Err("JSONDecodeError", 0)
    ELSE NoErr

\* what follows storage_response = self.get(response["tableContent"]["url"])
LookupOutcome(r) ==
    IF r.err.cls # "none" THEN r.err
    ELSE IF r.resp.status # 307 /\ RaiseForStatus(r.resp).cls # "none"
    THEN HubErr(<<>>)
    ELSE IF ~r.resp.body.json THEN Err("JSONDecodeError", 0)
    ELSE NoErr

GetDatasetLookup ==
    /\ pc = "gd_lookup"
    /\ \E a \in AuthEnvs(token, ext), n \in NetEnvs :
       \E r \in {Request(token, ext, FALSE, TRUE, a, n)} :
         /\ token' = r.tok
         /\ ext' = r.ext
         /\ log' = Logged(log, "lookup", r)
         /\ IF LookupOutcome(r).cls # "none"
            THEN /\ pc' = "done"
                 /\ last' = LastOf(DlOp, "lookup", LookupOutcome(r), r)
            ELSE /\ pc' = "gd_signed"
                 /\ last' = NoLast
    /\ UNCHANGED <<default_timeout, up>>
    /\ UNCHANGED <<dl, dataset, hub, objects>>

\* faulty variant: the status of the answer is not looked at
SignedOutcomeNoStatus(r) == r.err
\* _load_from_signed_url: self.get(url, auth=None, headers=headers); raise_for_status()
SignedOutcome(r) == IF r.err.cls # "none" THEN r.err ELSE RaiseForStatus(r.resp)
\* faulty variant: the GET of the signed URL is made with the client's auth
SignedGetWithAuth(tok, x, n) == Request(tok, x, FALSE, TRUE, QuietEnv, n)
\* self.get(url, auth=None, headers=headers)
SignedGet(tok, x, n) == Request(tok, x, FALSE, FALSE, QuietEnv, n)

(***************************************************************************)
(* The end of get_dataset: the table is read from the bytes, the dataset   *)
(* is built from the metadata, and its digest is verified or taken from    *)
(* the metadata.  The end of get_benchmark does the same for the           *)
(* benchmark, deciding by its dataset.                                     *)
(***************************************************************************)
Digested(err, md5sum, recomputed) ==
    [err |-> err, md5sum |-> md5sum, recomputed |-> recomputed]
\* faulty variant: the digest the hub reports is trusted whatever the strategy
DatasetDigestTrusts(strategy, meta, table, array) == Digested(NoErr, meta.md5Sum, 0)
\* faulty variant: a digest that differs is stored, not raised
DatasetDigestLenient(strategy, meta, table, array) ==
    IF ShouldVerifyChecksum(strategy, meta.uses_zarr)
    THEN Digested(NoErr, Checksum(table, array), 1)
    ELSE Digested(NoErr, meta.md5Sum, 0)
\* if should_verify_checksum(verify_checksum, dataset): dataset.verify_checksum()
\* else: dataset.md5sum = response["md5Sum"]
DatasetDigest(strategy, meta, table, array) ==
    IF ShouldVerifyChecksum(strategy, meta.uses_zarr)
    THEN Digested(VerifyChecksum(Checksum(table, array), meta.md5Sum),
                  Checksum(table, array), 1)
    ELSE Digested(NoErr, meta.md5Sum, 0)
\* if should_verify_checksum(verify_checksum, benchmark.dataset):
\*     benchmark.verify_checksum()  else: benchmark.md5sum = response["md5Sum"]
BenchmarkDigest(strategy, meta, dataset_md5sum, bmd5Sum) ==
    IF ShouldVerifyChecksum(strategy, meta.uses_zarr)
    THEN Digested(VerifyChecksum(BenchChecksum(dataset_md5sum), bmd5Sum),
                  BenchChecksum(dataset_md5sum), 1)
    ELSE Digested(NoErr, bmd5Sum, 0)

\* the call raises after the signed GET: what it had built is dropped
DownloadRaise(stage, err, r, strategy, meta) ==
    /\ pc' = "done"
    /\ last' = LastOf(DlOp, stage, err, r)
    /\ dl' = [dl EXCEPT !.strategy = strategy, !.meta = meta]

\* get_benchmark, lines 367-380, with the dataset get_dataset returned
GetBenchmarkEnd(r, strategy, meta, table, d) ==
    \E bmd5Sum \in BenchDigests :
    \E g \in {BenchmarkDigest(strategy, meta, d.md5sum, bmd5Sum)} :
      IF g.err.cls # "none"
      THEN /\ DownloadRaise("bench_verify", g.err, r, strategy, meta)
      ELSE /\ pc' = "done"
           /\ last' = [LastOf(DlOp, "return", NoErr, r) EXCEPT !.ret = TRUE]
           /\ dl' = [dl EXCEPT !.strategy = strategy, !.meta = meta,
                               !.bmd5Sum = bmd5Sum, !.table = table,
                               !.md5sum = d.md5sum, !.recomputed = d.recomputed,
                               !.bench_md5sum = g.md5sum,
                               !.bench_recomputed = g.recomputed]

\* get_dataset, lines 278-286, with the bytes the signed GET returned
GetDatasetEnd(r, strategy, meta, bytes) ==
    IF ReadParquet(bytes).err.cls # "none"
    THEN DownloadRaise("table", ReadParquet(bytes).err, r, strategy, meta)
    ELSE \E table \in {ReadParquet(bytes).table}, array \in ArraysFound(meta.uses_zarr) :
         \E d \in {DatasetDigest(strategy, meta, table, array)} :
           IF d.err.cls # "none"
           THEN DownloadRaise("verify", d.err, r, strategy, meta)
           ELSE IF dl.bench
           THEN GetBenchmarkEnd(r, strategy, meta, table, d)
           ELSE /\ pc' = "done"
                /\ last' = [LastOf(DlOp, "return", NoErr, r) EXCEPT !.ret = TRUE]
                /\ dl' = [dl EXCEPT !.strategy = strategy, !.meta = meta,
                                    !.table = table, !.md5sum = d.md5sum,
                                    !.recomputed = d.recomputed]

\* the signed GET and what follows it.  The verify_checksum argument and the
\* fields of the metadata are first read here
GetDatasetSigned ==
    /\ pc = "gd_signed"
    /\ \E n \in NetEnvs :
       \E r \in {SignedGet(token, ext, n)} :
         /\ token' = r.tok
         /\ ext' = r.ext
         /\ log' = Logged(log, "signed_get", r)
         /\ IF SignedOutcome(r).cls # "none"
            THEN /\ pc' = "done"
                 /\ last' = LastOf(DlOp, "signed_get", SignedOutcome(r), r)
                 /\ UNCHANGED dl
            ELSE \E strategy \in ChecksumStrategies, meta \in MetaServed(hub) :
                 \E bytes \in BytesServed(hub) :
                   GetDatasetEnd(r, strategy, meta, bytes)
    /\ UNCHANGED <<default_timeout, up>>
    /\ UNCHANGED <<dataset, hub, objects>>

(***************************************************************************)
(* upload_dataset(dataset, access, timeout, owner, if_exists).             *)
(***************************************************************************)
\* if timeout is None: timeout = self.settings.default_timeout
NormalTimeout(timeout, dt) == IF timeout = 0 THEN dt ELSE timeout

\* faulty variant: a dataset without a license is let through
LicenseCheckNone(license) == NoErr
\* if not dataset.license: raise InvalidDatasetError(...)
LicenseCheck(license) == IF ~license THEN Err("InvalidDatasetError", 0) ELSE NoErr

\* the call ends at the license check: nothing else of it has run
UploadNoLicense ==
    /\ pc = "idle"
    /\ pc' = "done"
    /\ log' = <<>>
    /\ \E license \in {l \in BOOLEAN : LicenseCheck(l).cls # "none"} :
         /\ up' = [NoUp EXCEPT !.license = license]
         /\ last' = [NoLast EXCEPT !.op = "upload_dataset", !.stage = "license",
                                   !.err = LicenseCheck(license),
                                   !.dt0 = default_timeout,
                                   !.tok0 = token, !.ext0 = ext]
    /\ UNCHANGED <<token, ext, default_timeout>>
    /\ UNCHANGED <<dl, dataset, hub, objects>>

\* the dataset and the conflict policy of a call: if_exists is read only for a
\* dataset that uses zarr, so the default stands for all policies otherwise
UploadInputs ==
    {i \in [uses_zarr : BOOLEAN, if_exists : IfExists] :
        i.uses_zarr \/ i.if_exists = "replace"}

\* Step 1: the announce, a PUT of the metadata through _base_request_to_hub
UploadAnnounce ==
    /\ pc = "idle"
    /\ \E timeout \in 0..MaxTimeout, ds \in UploadInputs :
       \E license \in {l \in BOOLEAN : LicenseCheck(l).cls = "none"} :
       \E buffer \in {ToParquet(dataset.table)} :
       \E a \in AuthEnvs(token, ext), n \in NetEnvs :
       \E b \in {BaseRequestToHub(token, ext, a, n)} :
         /\ token' = b.req.tok
         /\ ext' = b.req.ext
         /\ log' = Logged(<<>>, "announce", b.req)
         /\ up' = [NoUp EXCEPT !.timeout = NormalTimeout(timeout, default_timeout),
                               !.uses_zarr = ds.uses_zarr, !.if_exists = ds.if_exists,
                               !.dt0 = default_timeout,
                               !.license = license, !.owner_set = TRUE,
                               !.buffer = buffer, !.serialized = 1,
                               !.announced = Announce(buffer, dataset.table, ds.uses_zarr)]
         /\ hub' = IF Accepted(b.req)
                   THEN HubAnnounced(hub, Announce(buffer, dataset.table, ds.uses_zarr))
                   ELSE hub
         /\ IF b.err.cls # "none"
            THEN /\ pc' = "done"
                 /\ last' = [LastOf("upload_dataset", "announce", b.err, b.req)
                                EXCEPT !.parsed = b.parsed, !.dt0 = default_timeout]
            ELSE IF ~b.isJson
            THEN \* response["tableContent"] on a Response object
                 /\ pc' = "done"
                 /\ last' = [LastOf("upload_dataset", "announce", Err("TypeError", 0), b.req)
                                EXCEPT !.parsed = b.parsed, !.dt0 = default_timeout]
            ELSE /\ pc' = "tabular"
                 /\ last' = NoLast
    /\ UNCHANGED default_timeout
    /\ UNCHANGED <<dl, dataset, objects>>

\* faulty variant: the else branch does not raise for the status of the empty PUT
AfterHubPutNoRaise(r) ==
    IF r.err.cls # "none" THEN "raise"
    ELSE IF r.resp.status = 307
    THEN IF r.resp.body.json THEN "bucket" ELSE "raise"
    ELSE "step3"

\* faulty variant: a 307 is taken for the end of the transfer
AfterHubPutSkipBucket(r) ==
    IF r.err.cls # "none" THEN "raise"
    ELSE IF r.resp.status = 307 THEN "step3"
    ELSE IF RaiseForStatus(r.resp).cls # "none" THEN "raise"
    ELSE "step3"

\* Step 2, after the empty PUT: "bucket" (follow the 307), "raise", or "step3"
AfterHubPut(r) ==
    IF r.err.cls # "none" THEN "raise"
    ELSE IF r.resp.status = 307
    THEN IF r.resp.body.json THEN "bucket" ELSE "raise"
    ELSE IF RaiseForStatus(r.resp).cls # "none" THEN "raise"
    ELSE "step3"
HubPutError(r) ==
    IF r.err.cls # "none" THEN r.err
    ELSE IF r.resp.status = 307 THEN Err("JSONDecodeError", 0)
    ELSE RaiseForStatus(r.resp)

\* the end of step 2: step 3 only for a dataset that uses zarr
UploadAfterTabular(stage, r) ==
    IF up.uses_zarr
    THEN /\ pc' = "step3"
         /\ last' = NoLast
    ELSE /\ pc' = "done"
         /\ last' = [LastOf("upload_dataset", stage, NoErr, r)
                        EXCEPT !.ret = TRUE, !.dt0 = up.dt0]

\* the first PUT of step 2 is sent without content
HubPutContent == <<>>

UploadTabularPut ==
    /\ pc = "tabular"
    /\ \E a \in AuthEnvs(token, ext), n \in NetEnvs :
       \E r \in {Request(token, ext, FALSE, TRUE, a, n)} :
         /\ token' = r.tok
         /\ ext' = r.ext
         /\ log' = Logged(log, "hub_put", r)
         /\ CASE AfterHubPut(r) = "raise" ->
                   /\ pc' = "done"
                   /\ last' = [LastOf("upload_dataset", "hub_put", HubPutError(r), r)
                                  EXCEPT !.dt0 = up.dt0]
              [] AfterHubPut(r) = "bucket" ->
                   /\ pc' = "bucket"
                   /\ last' = NoLast
              [] OTHER -> UploadAfterTabular("hub_put", r)
         /\ hub' = IF Accepted(r) THEN HubReceived(hub, HubPutContent) ELSE hub
    /\ UNCHANGED <<default_timeout, up>>
    /\ UNCHANGED <<dl, dataset, objects>>

\* self.request(url=hub_response_body["url"], ..., content=..., auth=None, ...)
SignedPut(tok, x, n) == Request(tok, x, FALSE, FALSE, QuietEnv, n)

\* faulty variant: the table is written to a new buffer, which is sent unread
BucketContentEmpty(u) == <<>>
\* content=buffer.getvalue()
BucketContent(u) == u.buffer

\* the PUT of the buffered table to the signed URL, auth=None; raise_for_status()
UploadBucketPut ==
    /\ pc = "bucket"
    /\ \E n \in NetEnvs :
       \E r \in {SignedPut(token, ext, n)} :
         /\ token' = r.tok
         /\ ext' = r.ext
         /\ log' = Logged(log, "bucket_put", r)
         /\ up' = [up EXCEPT !.sent = IF r.attempts > 0 THEN Held(BucketContent(up)) ELSE @]
         /\ hub' = IF Accepted(r) THEN HubReceived(hub, BucketContent(up)) ELSE hub
         /\ IF SignedOutcome(r).cls # "none"
            THEN /\ pc' = "done"
                 /\ last' = [LastOf("upload_dataset", "bucket_put", SignedOutcome(r), r)
                                EXCEPT !.dt0 = up.dt0]
            ELSE UploadAfterTabular("bucket_put", r)
    /\ UNCHANGED default_timeout
    /\ UNCHANGED <<dl, dataset, objects>>

(***************************************************************************)
(* Step 3 runs inside  with tmp_attribute_change(self.settings,            *)
(* "default_timeout", timeout):  the attribute is set on entry and set     *)
(* back to its former value when the block is left, however it is left.    *)
(***************************************************************************)
TmpAttributeEnter(u, dt) == [value |-> u.timeout, saved |-> dt]
TmpAttributeExit(saved, dt) == saved
\* faulty variant: the timeout is assigned, not temporarily changed
Step3ExitKeep(u, dt) == dt

\* settings.default_timeout once the with block of step 3 is left
Step3Exit(u, dt) == TmpAttributeExit(u.saved, dt)

UploadEnterStep3 ==
    /\ pc = "step3"
    /\ default_timeout' = TmpAttributeEnter(up, default_timeout).value
    /\ up' = [up EXCEPT !.saved = TmpAttributeEnter(up, default_timeout).saved]
    /\ pc' = "zarr_open"
    /\ UNCHANGED <<token, ext, log, last>>
    /\ UNCHANGED <<dl, dataset, hub, objects>>

\* a request of the remote store, made with the client through the file system
StoreOutcome(r) == IF r.err.cls # "none" THEN r.err ELSE RaiseForStatus(r.resp)
\* what the network answers to it: only the status of a response is looked at
StoreNetEnvs == {n \in NetEnvs : n.resp.body = TextBody}

(***************************************************************************)
(* open_zarr_file(owner, name, path, mode, as_consolidated): the check of  *)
(* the arguments, then the file system object, then the store is opened;   *)
(* any exception while it is opened is raised as PolarisHubError.          *)
(*   fs: PolarisFileSystem objects created                                 *)
(***************************************************************************)
IOModes == {"r", "r+", "a", "w", "w-"}
\* faulty variant: the combination of the arguments is not checked
OpenZarrCheckNone(mode, as_consolidated) == NoErr
\* if as_consolidated and mode not in ["r", "r+"]: raise ValueError(...)
OpenZarrCheck(mode, as_consolidated) ==
    IF as_consolidated /\ mode \notin {"r", "r+"} THEN Err("ValueError", 0) ELSE NoErr
\* except Exception as e: raise PolarisHubError("Error opening Zarr store") from e
OpenZarrError(r) == IF StoreOutcome(r).cls # "none" THEN HubErr(<<>>) ELSE NoErr

OpenZarrFile ==
    /\ pc = "idle"
    /\ pc' = "done"
    /\ \E mode \in IOModes, as_consolidated \in BOOLEAN :
         IF OpenZarrCheck(mode, as_consolidated).cls # "none"
         THEN /\ last' = [NoLast EXCEPT !.op = "open_zarr_file", !.stage = "arguments",
                             !.err = OpenZarrCheck(mode, as_consolidated),
                             !.mode = mode, !.as_consolidated = as_consolidated]
              /\ log' = <<>>
              /\ UNCHANGED <<token, ext>>
         ELSE \E a \in AuthEnvs(token, ext), n \in StoreNetEnvs :
              \E r \in {Request(token, ext, FALSE, TRUE, a, n)} :
                /\ token' = r.tok
                /\ ext' = r.ext
                /\ log' = Logged(<<>>, "zarr_file", r)
                /\ last' = [LastOf("open_zarr_file", "zarr_file", OpenZarrError(r), r)
                               EXCEPT !.cause = StoreOutcome(r).cls,
                                      !.ret = (StoreOutcome(r).cls = "none"),
                                      !.mode = mode, !.as_consolidated = as_consolidated,
                                      !.fs = 1]
    /\ UNCHANGED <<default_timeout, up>>
    /\ UNCHANGED <<dl, dataset, hub, objects>>

\* the block is left by an exception
UploadStep3Raise(stage, err, cause, r) ==
    /\ pc' = "done"
    /\ default_timeout' = Step3Exit(up, default_timeout)
    /\ last' = [LastOf("upload_dataset", stage, err, r)
                   EXCEPT !.cause = cause, !.dt0 = up.dt0]

\* what the destination is found to hold once it is opened in mode "w": the root
\* group's metadata just written, and the chunks (with their consolidated
\* metadata) an earlier upload left there
DestAfterOpen ==
    {d \in [StoreKeys -> {"absent", "source", "other"}] :
        /\ d[ZGroup] = "source"
        /\ \A c \in Chunks : d[c] \in {"absent", "other"}
        /\ d[ZMetadata] = IF \E c \in Chunks : d[c] # "absent" THEN "other" ELSE "absent"}

\* dest = self.open_zarr_file(..., mode="w", as_consolidated=False): any
\* exception while the store is opened is raised as PolarisHubError
UploadOpenZarr ==
    /\ pc = "zarr_open"
    /\ OpenZarrCheck("w", FALSE).cls = "none"
    /\ \E a \in AuthEnvs(token, ext), n \in StoreNetEnvs :
       \E r \in {Request(token, ext, FALSE, TRUE, a, n)} :
         /\ token' = r.tok
         /\ ext' = r.ext
         /\ log' = Logged(log, "store_open", r)
         /\ IF OpenZarrError(r).cls # "none"
            THEN /\ UploadStep3Raise("store_open", OpenZarrError(r), StoreOutcome(r).cls, r)
                 /\ UNCHANGED up
            ELSE /\ pc' = "zarr_meta"
                 /\ last' = NoLast
                 /\ UNCHANGED <<default_timeout, up>>
    /\ UNCHANGED <<dl, dataset, hub, objects>>

\* a step of the call that makes no request
Unsent(tok, x) == ReqResult(NoErr, NoResp, 0, FALSE, "skipped", tok, x, 0, 0)
\* dest.store[".zmetadata"] = zmetadata_content
WriteKey(d, k) == [d EXCEPT ![k] = "source"]

\* zarr.consolidate_metadata(dataset.zarr_root.store.store): the keys of the
\* source store it writes
ConsolidateWrites == {ZMetadata}

\* zarr.consolidate_metadata(local store); dest.store[".zmetadata"] = content
UploadConsolidate ==
    /\ pc = "zarr_meta"
    /\ \/ \* the local consolidation fails: nothing is sent
          /\ UploadStep3Raise("consolidate", Err("ZarrError", 0), "none", Unsent(token, ext))
          /\ UNCHANGED <<token, ext, log, up>>
       \/ \E a \in AuthEnvs(token, ext), n \in StoreNetEnvs :
          \E r \in {Request(token, ext, FALSE, TRUE, a, n)} :
            /\ token' = r.tok
            /\ ext' = r.ext
            /\ log' = Logged(log, "store_write", r)
            /\ IF StoreOutcome(r).cls # "none"
               THEN /\ UploadStep3Raise("zmetadata", StoreOutcome(r), "none", r)
                    /\ up' = [up EXCEPT !.src_written = ConsolidateWrites]
               ELSE /\ pc' = "zarr_copy"
                    /\ last' = NoLast
                    /\ \E d \in DestAfterOpen :
                         up' = [up EXCEPT !.dest = WriteKey(d, ZMetadata),
                                          !.dest0 = WriteKey(d, ZMetadata),
                                          !.next = 1,
                                          !.src_written = ConsolidateWrites]
                    /\ UNCHANGED default_timeout
    /\ UNCHANGED <<dl, dataset, hub, objects>>

(***************************************************************************)
(* zarr.copy_store(source, dest.store, if_exists=if_exists): for each key  *)
(* of the source in sorted order, a key that exists in the destination is  *)
(* overwritten ("replace"), left alone ("skip") or ends the copy with a    *)
(* CopyError naming it ("raise"); any other key is copied.                 *)
(***************************************************************************)
\* faulty variant: "skip" overwrites
CopyDecisionSkipCopies(if_exists, exists) ==
    IF if_exists = "raise" /\ exists THEN "raise" ELSE "copy"
\* faulty variant: "replace" leaves an existing key alone
CopyDecisionReplaceSkips(if_exists, exists) ==
    IF exists THEN (IF if_exists = "raise" THEN "raise" ELSE "skip") ELSE "copy"

CopyDecision(if_exists, exists) ==
    IF if_exists # "replace" /\ exists
    THEN (IF if_exists = "raise" THEN "raise" ELSE "skip")
    ELSE "copy"
\* what copy_store does with the key it has come to
CopyNow == CopyDecision(up.if_exists, up.dest[up.next] # "absent")

\* the key is done: the next key, or the end of the copy and of the with block
CopyAdvance(d, r) ==
    IF up.next = MaxChunks + 2
    THEN /\ pc' = "done"
         /\ default_timeout' = Step3Exit(up, default_timeout)
         /\ up' = [up EXCEPT !.dest = d]
         /\ last' = [LastOf("upload_dataset", "copy", NoErr, r)
                        EXCEPT !.ret = TRUE, !.dt0 = up.dt0]
    ELSE /\ pc' = "zarr_copy"
         /\ up' = [up EXCEPT !.dest = d, !.next = up.next + 1]
         /\ last' = NoLast
         /\ UNCHANGED default_timeout

\* raise CopyError("key ... exists in destination")
UploadCopyConflict ==
    /\ pc = "zarr_copy"
    /\ CopyNow = "raise"
    /\ pc' = "done"
    /\ default_timeout' = Step3Exit(up, default_timeout)
    /\ last' = [LastOf("upload_dataset", "copy", Err("CopyError", 0), Unsent(token, ext))
                   EXCEPT !.key = up.next, !.dt0 = up.dt0]
    /\ UNCHANGED <<token, ext, log, up>>
    /\ UNCHANGED <<dl, dataset, hub, objects>>

UploadCopySkip ==
    /\ pc = "zarr_copy"
    /\ CopyNow = "skip"
    /\ CopyAdvance(up.dest, Unsent(token, ext))
    /\ UNCHANGED <<token, ext, log>>
    /\ UNCHANGED <<dl, dataset, hub, objects>>

\* dest[dest_key] = source[source_key]: a write of the remote store
UploadCopyWrite ==
    /\ pc = "zarr_copy"
    /\ CopyNow = "copy"
    /\ \E a \in AuthEnvs(token, ext), n \in StoreNetEnvs :
       \E r \in {Request(token, ext, FALSE, TRUE, a, n)} :
         /\ token' = r.tok
         /\ ext' = r.ext
         /\ log' = Logged(log, "store_write", r)
         /\ IF StoreOutcome(r).cls # "none"
            THEN /\ UploadStep3Raise("copy", StoreOutcome(r), "none", r)
                 /\ UNCHANGED up
            ELSE CopyAdvance(WriteKey(up.dest, up.next), r)
    /\ UNCHANGED <<dl, dataset, hub, objects>>

(***************************************************************************)
(* The caller takes what the call returned or raised.                      *)
(***************************************************************************)
Return ==
    /\ pc = "done"
    /\ pc' = "idle"
    /\ last' = NoLast
    /\ log' = <<>>
    /\ up' = NoUp
    /\ dl' = NoDl
    /\ UNCHANGED <<token, ext, default_timeout>>
    /\ UNCHANGED <<dataset, hub, objects>>

Next ==
    \/ ExpireHubToken
    \/ ExpireIdentityToken
    \/ CallEnsureActiveToken
    \/ CallFetchToken
    \/ CallRequest
    \/ CallBaseRequest
    \/ Login
    \/ GetBenchmarkMeta
    \/ GetDatasetMeta
    \/ GetDatasetLookup
    \/ GetDatasetSigned
    \/ OpenZarrFile
    \/ UploadNoLicense
    \/ UploadAnnounce
    \/ UploadTabularPut
    \/ UploadBucketPut
    \/ UploadEnterStep3
    \/ UploadOpenZarr
    \/ UploadConsolidate
    \/ UploadCopyConflict
    \/ UploadCopySkip
    \/ UploadCopyWrite
    \/ Return

Spec == Init /\ [][Next]_vars

(***************************************************************************)
(* Transfers with a hub that stores what it receives: a client whose       *)
(* tokens are active uploads one of the tables and downloads what the hub  *)
(* holds.  The actions are those of the client above.                      *)
(***************************************************************************)
InitTransfer ==
    /\ token = Tok(1, FALSE, TRUE)
    /\ ext = Tok(1, FALSE, TRUE)
    /\ default_timeout = 1
    /\ pc = "idle"
    /\ up = NoUp
    /\ log = <<>>
    /\ last = NoLast
    /\ dl = NoDl
    /\ dataset \in [table : Tables]
    /\ hub = HubEmpty
    /\ res = NoRes
    /\ split = NoSplit

NextTransfer ==
    \/ UploadNoLicense
    \/ UploadAnnounce
    \/ UploadTabularPut
    \/ UploadBucketPut
    \/ UploadEnterStep3
    \/ UploadOpenZarr
    \/ UploadConsolidate
    \/ UploadCopyConflict
    \/ UploadCopySkip
    \/ UploadCopyWrite
    \/ GetBenchmarkMeta
    \/ GetDatasetMeta
    \/ GetDatasetLookup
    \/ GetDatasetSigned
    \/ Return

SpecTransfer == InitTransfer /\ [][NextTransfer]_vars

(***************************************************************************)
(* BenchmarkResults(name=..., ...): the validation of the fields, then the *)
(* body of __init__.  The private attributes hold their defaults when the  *)
(* body reads them: _user_name is None, _created_at is the time of the     *)
(* call.  A constructor that raises leaves no instance.                    *)
(***************************************************************************)
ConstructResults ==
    /\ pc = "idle"
    /\ \E name \in NameArgs, user_name \in {None}, created_at \in Datetimes :
         /\ res' = IF ValidateName(name).cls # "none"
                   THEN [NoRes EXCEPT !.arg = name]
                   ELSE [made |-> TRUE, arg |-> name,
                         name |-> FilledName(name, user_name, created_at)]
         /\ last' = [NoLast EXCEPT !.op = "BenchmarkResults",
                                   !.err = ValidateName(name),
                                   !.ret = (ValidateName(name).cls = "none")]
    /\ pc' = "done"
    /\ UNCHANGED <<token, ext, default_timeout, up, log>>
    /\ UNCHANGED <<dl, dataset, hub, split>>

InitResults ==
    /\ token = NoToken
    /\ ext = NoToken
    /\ default_timeout = 1
    /\ pc = "idle"
    /\ up = NoUp
    /\ log = <<>>
    /\ last = NoLast
    /\ dl = NoDl
    /\ dataset = [table |-> <<"a">>]
    /\ hub = HubAny
    /\ res = NoRes
    /\ split = NoSplit

\* the caller takes the instance, or the error, and lets go of it
DropResults ==
    /\ pc = "done"
    /\ last.op = "BenchmarkResults"
    /\ pc' = "idle"
    /\ last' = NoLast
    /\ res' = NoRes
    /\ UNCHANGED <<token, ext, default_timeout, up, log>>
    /\ UNCHANGED <<dl, dataset, hub, split>>

NextResults ==
    \/ ConstructResults
    \/ DropResults

SpecResults == InitResults /\ [][NextResults]_vars

(***************************************************************************)
(* MinMaxSplit._iter_indices(X): a generator.  Its body runs up to the     *)
(* loop when the first split is asked for, then yields one split for each  *)
(* pass of the loop.  The splitter and X are the same in every call.       *)
(***************************************************************************)
SplitRaise(err) ==
    /\ pc' = "done"
    /\ last' = [NoLast EXCEPT !.op = "_iter_indices", !.err = err]

\* lines 34-53: the sizes, the check of the SMILES, the base seed
IterIndicesBegin ==
    /\ pc = "idle"
    /\ split.made
    /\ split.calls < MaxCalls
    /\ \E v \in {ValidateShuffleSplit(split.n_samples, split.test_size, split.train_size)} :
         /\ split' = [split EXCEPT !.calls = @ + 1, !.i = 0,
                                   !.base_seed = BaseSeed(split.random_state),
                                   !.n_train = v.n_train,
                                   !.before = split.yielded, !.yielded = <<>>]
         /\ IF v.err.cls # "none"
            THEN SplitRaise(v.err)
            ELSE IF SmilesCheck(split.smiles, split.is_smiles).cls # "none"
            THEN SplitRaise(SmilesCheck(split.smiles, split.is_smiles))
            ELSE /\ pc' = "split_iter"
                 /\ last' = NoLast
    /\ UNCHANGED <<token, ext, default_timeout, up, log>>
    /\ UNCHANGED <<dl, dataset, hub, res>>

\* lines 55-58: one pass of the loop
IterIndicesYield ==
    /\ pc = "split_iter"
    /\ split.i < split.n_splits
    /\ \E seed \in {split.base_seed + split.i} :
       \E pool \in {PoolSize(split.n_samples, split.is_smiles, split.smiles)} :
         IF split.n_train > pool
         THEN \* the picker is asked for more molecules than there are
              /\ SplitRaise(Err("RuntimeError", 0))
              /\ UNCHANGED split
         ELSE \E picked_samples \in PicksFor(split.memo, pool, split.n_train, seed) :
                /\ split' = [split EXCEPT
                               !.i = @ + 1,
                               !.memo = Remember(@, seed, picked_samples),
                               !.yielded = Append(@,
                                   [train |-> picked_samples,
                                    test |-> SetDiff1d(split.n_samples, picked_samples),
                                    seed |-> seed])]
                /\ UNCHANGED <<pc, last>>
    /\ UNCHANGED <<token, ext, default_timeout, up, log>>
    /\ UNCHANGED <<dl, dataset, hub, res>>

\* the loop has run n_splits times: the generator is exhausted
IterIndicesEnd ==
    /\ pc = "split_iter"
    /\ split.i = split.n_splits
    /\ pc' = "done"
    /\ last' = [NoLast EXCEPT !.op = "_iter_indices", !.ret = TRUE]
    /\ UNCHANGED <<token, ext, default_timeout, up, log>>
    /\ UNCHANGED <<dl, dataset, hub, res, split>>

\* the caller has taken the splits, or the error
SplitReturn ==
    /\ pc = "done"
    /\ last.op = "_iter_indices"
    /\ pc' = "idle"
    /\ last' = NoLast
    /\ UNCHANGED <<token, ext, default_timeout, up, log>>
    /\ UNCHANGED <<dl, dataset, hub, res, split>>

InitSplit ==
    /\ token = NoToken
    /\ ext = NoToken
    /\ default_timeout = 1
    /\ pc = "idle"
    /\ up = NoUp
    /\ log = <<>>
    /\ last = NoLast
    /\ dl = NoDl
    /\ dataset = [table |-> <<"a">>]
    /\ hub = HubAny
    /\ res = NoRes
    /\ split \in Splitters

NextSplit ==
    \/ IterIndicesBegin
    \/ IterIndicesYield
    \/ IterIndicesEnd
    \/ SplitReturn

SpecSplit == InitSplit /\ [][NextSplit]_vars

(***************************************************************************)
(*                              The claims                                 *)
(***************************************************************************)
Done(op) == pc = "done" /\ last.op = op
HasCls(c) == last.err.cls = c
\* the hub token's own check says active / fails (expired, nothing to refresh with)
HubActive(t) == t.present /\ ~t.expired
HubInactive(t) == t.present /\ t.expired /\ ~t.refresh
\* the identity token is usable / is expired with no refresh path
IdentityActive(x) == x.present /\ ~x.expired
IdentityInactive(x) == x.present /\ x.expired /\ ~x.refresh
\* the requests of the log, by kind
KindsAt(kinds) == {i \in 1..Len(log) : log[i].kind \in kinds}
UploadRank(kind) ==
    CASE kind = "announce" -> 1
      [] kind = "hub_put" -> 2
      [] kind = "bucket_put" -> 3
      [] kind = "store_open" -> 4
      [] kind = "store_write" -> 5
      [] OTHER -> 0
\* the stages whose request goes through _base_request_to_hub
BaseStages == {"hub", "meta", "announce"}

(* C1: in every run of upload_dataset the requests occur in the order      *)
(* announce -> tabular transfer (empty PUT, then the PUT to the signed     *)
(* destination) -> array transfer: no tabular request before the announce  *)
(* answered with success, the signed PUT only after a 307 of the empty     *)
(* PUT, no request of the array store before the tabular transfer ended    *)
(* with a success status.                                                  *)
C1_UploadOrder ==
    /\ \A i, j \in 1..Len(log) :
         i < j /\ UploadRank(log[i].kind) > 0 /\ UploadRank(log[j].kind) > 0
            => UploadRank(log[i].kind) <= UploadRank(log[j].kind)
    /\ Cardinality(KindsAt({"announce"})) <= 1
    /\ Cardinality(KindsAt({"hub_put"})) <= 1
    /\ Cardinality(KindsAt({"bucket_put"})) <= 1
    /\ \A j \in KindsAt({"hub_put", "bucket_put", "store_open", "store_write"}) :
         \E i \in KindsAt({"announce"}) : i < j /\ Is2xx(log[i].status)
    /\ \A j \in KindsAt({"bucket_put"}) :
         \E i \in KindsAt({"hub_put"}) : i < j /\ log[i].status = 307
    /\ \A j \in KindsAt({"store_open", "store_write"}) :
         \/ \E i \in KindsAt({"hub_put"}) : i < j /\ Is2xx(log[i].status)
         \/ \E i \in KindsAt({"bucket_put"}) : i < j /\ Is2xx(log[i].status)
\* an upload that went through all three steps, by way of the signed URL
C1_Witness ==
    /\ Done("upload_dataset") /\ last.ret
    /\ Len(log) >= 6
    /\ log[3].kind = "bucket_put" /\ log[6].kind = "store_write"

(* C2: on every exit path of upload_dataset (normal return, an exception   *)
(* while the store is opened, while the metadata is consolidated, during   *)
(* the copy) settings.default_timeout is what it was before the call.      *)
C2_TimeoutRestored ==
    Done("upload_dataset") => default_timeout = last.dt0
\* the copy raised while the timeout was overridden with another value
C2_Witness ==
    /\ Done("upload_dataset") /\ last.stage = "copy" /\ ~HasCls("none")
    /\ up.timeout # last.dt0

(* C3: the hub token is attached to a request only after it passed the     *)
(* activity check made for that request (possibly after a silent re-fetch) *)
(* and is then unexpired; a request made with an expired hub token that    *)
(* nothing can renew (no refresh token, identity token absent or expired   *)
(* without refresh path) puts no credentialed request on the wire.         *)
C3_TokenUsedOnlyActive ==
    /\ \A i \in 1..Len(log) :
         log[i].cred => log[i].checked = "passed" /\ ~log[i].tokExpired
    /\ (/\ Done("request")
        /\ \/ ~last.tok0.present
           \/ /\ HubInactive(last.tok0)
              /\ (~last.ext0.present \/ IdentityInactive(last.ext0)))
       => \A i \in 1..Len(log) : ~log[i].cred
\* a credentialed request sent after the silent re-fetch of an expired token
C3_Witness ==
    /\ Done("request") /\ HubInactive(last.tok0) /\ last.exchanges = 1
    /\ Len(log) = 1 /\ log[1].cred

(* C4: ensure_active_token with an inactive hub token and an inactive      *)
(* identity token (no refresh path) returns false, requests no token       *)
(* exchange and leaves the stored hub token unchanged.                     *)
C4_BothInactive ==
    (Done("ensure_active_token") /\ HubInactive(last.tok0) /\ IdentityInactive(last.ext0))
       => /\ HasCls("none") /\ ~last.ret
          /\ last.exchanges = 0
          /\ token = last.tok0
\* such a call has returned
C4_Witness ==
    /\ Done("ensure_active_token")
    /\ HubInactive(last.tok0) /\ IdentityInactive(last.ext0)
    /\ last.extConsulted

(* C5 (as claimed): ensure_active_token with an inactive hub token and an  *)
(* active identity token performs exactly one token exchange, replaces the *)
(* stored hub token with the fetched one and returns true.                 *)
C5_AlwaysRefetched ==
    (Done("ensure_active_token") /\ HubInactive(last.tok0) /\ IdentityActive(last.ext0))
       => /\ last.exchanges = 1
          /\ HasCls("none") /\ last.ret
          /\ HubActive(token) /\ token.id # last.tok0.id

(* C5 (amended): ensure_active_token with an inactive hub token and an     *)
(* active identity token requests exactly one token exchange; if the       *)
(* exchange succeeds the stored hub token is replaced by the fetched one   *)
(* and the call returns true; if the exchange fails its error is raised    *)
(* and the stored hub token is unchanged.                                  *)
C5_RefetchedUnlessExchangeFails ==
    (Done("ensure_active_token") /\ HubInactive(last.tok0) /\ IdentityActive(last.ext0))
       => /\ last.exchanges = 1
          /\ last.extConsulted
          /\ IF HasCls("none")
             THEN last.ret /\ HubActive(token) /\ token.id # last.tok0.id
             ELSE /\ token = last.tok0
                  /\ last.err.cls \in {"OAuthError", "HTTPStatusError",
                                       "SSLCertVerificationError", "ConnectError"}
\* the silent refresh happened
C5_Witness ==
    /\ Done("ensure_active_token")
    /\ HubInactive(last.tok0) /\ IdentityActive(last.ext0)
    /\ last.ret /\ token.id # last.tok0.id

(* C6: ensure_active_token with an active hub token returns true without   *)
(* consulting the identity token, without any request to the token         *)
(* endpoint, and without changing the stored hub token.                    *)
C6_ActiveUntouched ==
    (Done("ensure_active_token") /\ HubActive(last.tok0))
       => /\ HasCls("none") /\ last.ret
          /\ ~last.extConsulted
          /\ last.exchanges = 0 /\ last.refreshes = 0
          /\ token = last.tok0 /\ ext = last.ext0
\* the call was made while the identity token was expired
C6_Witness ==
    /\ Done("ensure_active_token") /\ HubActive(last.tok0)
    /\ last.ext0.present /\ last.ext0.expired /\ last.ret

(* C7: a response with status 401 (to a metadata request made through      *)
(* _base_request_to_hub, to the signed-URL lookup of get_dataset, to       *)
(* either PUT of the tabular transfer of upload_dataset) raises            *)
(* PolarisUnauthorizedError, never PolarisHubError.  Stated for the 401    *)
(* answers that carry a JSON error body, as the hub's do.                  *)
C7_Unauthorized401 ==
    (/\ pc = "done"
     /\ last.stage \in BaseStages \cup {"lookup", "hub_put", "bucket_put"}
     /\ last.attempts = 1
     /\ last.resp.status = 401 /\ last.resp.body.json)
       => HasCls("PolarisUnauthorizedError")

(* C8: a response with status 500 to a request made through                *)
(* _base_request_to_hub raises the raw status error: the body is never     *)
(* parsed as JSON, the error is not wrapped into PolarisHubError.          *)
C8_Raw500 ==
    (pc = "done" /\ last.stage \in BaseStages /\ last.resp.status = 500)
       => /\ last.err = Err("HTTPStatusError", 500)
          /\ last.parsed = 0
\* a 500 whose body is JSON
C8_Witness ==
    /\ pc = "done" /\ last.stage = "hub"
    /\ last.resp.status = 500 /\ last.resp.body.json

(* C9: a non-2xx response other than 401 and 500 to a request made through *)
(* _base_request_to_hub raises PolarisHubError with the full serialized    *)
(* payload if the body is structured, and re-raises the raw status error   *)
(* if it is not; no other exception type escapes.  Stated for the error    *)
(* statuses (4xx, 5xx).                                                    *)
C9_OtherStatus ==
    (/\ pc = "done" /\ last.stage \in BaseStages /\ last.attempts = 1
     /\ last.resp.status >= 400 /\ last.resp.status \notin {401, 500})
       => IF last.resp.body.json
          THEN /\ HasCls("PolarisHubError")
               /\ {last.err.msg[i] : i \in 1..Len(last.err.msg)} = ParseJson(last.resp.body)
               /\ Len(last.err.msg) = Len(last.resp.body.wire)
          ELSE last.err = Err("HTTPStatusError", last.resp.status)

(* C10: in request() a connect failure caused by certificate verification  *)
(* is raised as ssl.SSLCertVerificationError, any other connect failure is *)
(* re-raised unchanged, and in neither case is the request sent again.     *)
C10_ConnectFailure ==
    (Done("request") /\ last.conn \in {"ssl", "refused"})
       => /\ last.conn = "ssl" => last.err = SslCertErr
          /\ last.conn = "refused" => last.err = ConnectErr(FALSE)
          /\ last.attempts = 1 /\ Len(log) = 1
\* a certificate failure of a credentialed request
C10_Witness ==
    /\ Done("request") /\ last.conn = "ssl"
    /\ Len(log) = 1 /\ log[1].cred

(* C11: on behalf of one outbound request at most one token renewal (one   *)
(* token exchange, or one refresh grant) is requested; a request made with *)
(* an inactive hub token and an active identity token requests exactly one *)
(* exchange; when the token is still unusable nothing is sent and an error *)
(* is raised; a request is put on the wire at most once, whatever the      *)
(* answer.                                                                 *)
C11_OneRefreshPerRequest ==
    /\ (pc = "done" /\ last.op \in {"request", "base_request", "get_dataset", "upload_dataset"})
          => /\ last.exchanges + last.refreshes <= 1
             /\ last.attempts <= 1
             /\ (last.attempts = 0 /\ last.stage # "copy") => ~HasCls("none")
    /\ Done("request")
          => /\ Len(log) = last.attempts
             /\ (/\ HubInactive(last.tok0) /\ IdentityActive(last.ext0)
                 /\ (last.attempts = 0 \/ log[1].cred))
                   => last.exchanges = 1
             /\ last.attempts = 0
                   => last.err.cls \in {"PolarisUnauthorizedError", "SSLCertVerificationError",
                                        "ConnectError", "HTTPStatusError"}
\* the one exchange was rejected: the request was not sent, the failure raised
C11_Witness ==
    /\ Done("request") /\ HubInactive(last.tok0) /\ IdentityActive(last.ext0)
    /\ last.exchanges = 1 /\ last.attempts = 0
    /\ last.err = Unauthorized

(* C12: login performs an interactive login (followed, when it completes,  *)
(* by a token exchange) if and only if overwrite is true, or no hub token  *)
(* is stored, or the stored hub token was not made active by the activity  *)
(* check; with overwrite false and an active stored hub token it performs  *)
(* no interactive login and no token exchange and leaves the token as it   *)
(* is.  Stated for the runs in which the token endpoint answered every     *)
(* grant it was sent, accepting or rejecting it.                           *)
C12_LoginIff ==
    (Done("login") /\ last.err.cls \in {"none", "OAuthError", "AuthenticationError"})
       => /\ last.interactive = 1
               <=> (last.overwrite \/ ~last.tok0.present \/ ~last.active)
          /\ (last.interactive = 1 /\ last.stage = "exchange") => last.exchanges >= 1
          /\ (~last.overwrite /\ HubActive(last.tok0))
               => /\ last.interactive = 0 /\ last.exchanges = 0
                  /\ token = last.tok0

(* C13: fetching a hub token fails with the authentication error (the      *)
(* OAuth error of the exchange, or PolarisUnauthorizedError) whenever the  *)
(* identity token is absent or inactive or the endpoint rejects the        *)
(* exchange; no hub token is stored then, and a hub token is stored only   *)
(* with an active identity token.  Stated for the runs in which the token  *)
(* endpoint, if it was sent the grant, answered it.                        *)
C13_FetchFailsAuth ==
    (Done("fetch_token") /\ last.conn \in {"ok", "unsent"} /\ last.resp.status # 500)
       => /\ ~IdentityActive(last.ext0)
               => /\ last.err.cls \in {"OAuthError", "PolarisUnauthorizedError"}
                  /\ token = last.tok0
          /\ ~HasCls("none") => token = last.tok0
          /\ HasCls("none") => IdentityActive(last.ext0) /\ HubActive(token)

(* C14: open_zarr_file with as_consolidated true and a mode other than     *)
(* "r" and "r+" raises the ValueError of the argument check: no request is *)
(* made and no file system object is created.                              *)
C14_ConsolidatedNeedsRead ==
    (Done("open_zarr_file") /\ last.as_consolidated /\ last.mode \notin {"r", "r+"})
       => /\ last.err = Err("ValueError", 0)
          /\ log = <<>> /\ last.attempts = 0
          /\ last.exchanges = 0 /\ last.refreshes = 0
          /\ last.fs = 0
\* the call was made in mode "w" with an expired hub token and raised
C14_Witness ==
    /\ Done("open_zarr_file") /\ last.as_consolidated /\ last.mode = "w"
    /\ HasCls("ValueError")
    /\ token.present /\ token.expired

\* the array transfer of an upload ran to its end under the policy
Copied(policy) ==
    /\ Done("upload_dataset") /\ last.stage = "copy" /\ last.ret
    /\ up.if_exists = policy
\* the chunks the destination held when the copy began
PreExisting == {c \in Chunks : up.dest0[c] # "absent"}
\* the keys the destination held when the copy began
Existing == {k \in StoreKeys : up.dest0[k] # "absent"}
\* the writes of the remote store the upload made during the copy
CopyWrites == Cardinality(KindsAt({"store_write"})) - 1

(* C15: after an array transfer with if_exists = "skip" that ran to its    *)
(* end, every chunk the destination held when the copy began (with bytes   *)
(* other than the source's) holds the bytes it held, and every other chunk *)
(* holds the source's bytes: exactly the chunks that were missing were     *)
(* written.                                                                *)
C15_SkipKeepsExisting ==
    Copied("skip")
       => /\ \A c \in PreExisting : up.dest[c] = up.dest0[c] /\ up.dest[c] = "other"
          /\ \A c \in Chunks \ PreExisting : up.dest[c] = "source"
          /\ CopyWrites = Cardinality(StoreKeys \ Existing)
\* one chunk was there before and is unchanged, another was copied
C15_Witness ==
    /\ Copied("skip")
    /\ Cardinality(PreExisting) = 1
    /\ \E c \in Chunks : up.dest0[c] = "absent" /\ up.dest[c] = "source"

(* C16: after an array transfer with if_exists = "replace" that ran to its *)
(* end, every key of the source (every chunk, whether or not the           *)
(* destination held it before) holds the source's bytes in the             *)
(* destination, and every key was written.                                 *)
C16_ReplaceOverwrites ==
    Copied("replace")
       => /\ \A k \in StoreKeys : up.dest[k] = "source"
          /\ CopyWrites = Cardinality(StoreKeys)
\* the destination held chunks with other bytes
C16_Witness ==
    /\ Copied("replace")
    /\ PreExisting = Chunks
    /\ \A c \in Chunks : up.dest0[c] = "other" /\ up.dest[c] = "source"

(* C17: an array transfer with if_exists = "raise" into a destination that *)
(* holds one chunk ends with the CopyError at that chunk: the error names  *)
(* it, every key before it has been written, no key after it has been,     *)
(* and nothing that was written is undone.  Stated for the runs in which   *)
(* no request of the copy failed.                                          *)
C17_RaiseAbortsAtChunk ==
    (Done("upload_dataset") /\ up.uses_zarr /\ up.if_exists = "raise"
        /\ last.stage = "copy" /\ last.attempts = 0
        /\ Cardinality(PreExisting) = 1)
       => /\ HasCls("CopyError")
          /\ last.key \in PreExisting
          /\ \A k \in StoreKeys :
               up.dest[k] = IF k < last.key THEN "source" ELSE up.dest0[k]
          /\ CopyWrites = last.key - 1

(* C18: in upload_dataset, after an empty PUT answered 307 (with the JSON  *)
(* body of the redirect convention) exactly one further PUT is sent, to    *)
(* the signed destination, and a non-success status of it is raised; after *)
(* an empty PUT answered otherwise no further PUT is sent and a            *)
(* non-success status of the empty PUT is raised at once; the array store  *)
(* is touched only after the last PUT of the tabular transfer answered     *)
(* with a success status.                                                  *)
C18_TabularTransfer ==
    Done("upload_dataset")
       => /\ \A i \in KindsAt({"hub_put"}) :
               IF log[i].status = 307
               THEN IF last.stage = "hub_put" THEN ~last.resp.body.json
                    ELSE /\ KindsAt({"bucket_put"}) = {i + 1}
                         /\ ~Is2xx(log[i + 1].status)
                              => /\ last.stage = "bucket_put"
                                 /\ log[i + 1].status # 0
                                      => last.err = Err("HTTPStatusError", log[i + 1].status)
               ELSE /\ KindsAt({"bucket_put"}) = {}
                    /\ ~Is2xx(log[i].status)
                         => /\ last.stage = "hub_put"
                            /\ log[i].status # 0
                                 => last.err = Err("HTTPStatusError", log[i].status)
          /\ \A j \in KindsAt({"store_open", "store_write"}) :
               \E i \in KindsAt({"hub_put", "bucket_put"}) :
                 /\ i < j /\ Is2xx(log[i].status)
                 /\ \A h \in KindsAt({"hub_put", "bucket_put"}) : h <= i
\* the PUT to the signed destination was answered 404 and the call raised
C18_Witness ==
    /\ Done("upload_dataset") /\ last.stage = "bucket_put"
    /\ Len(log) = 3 /\ log[2].status = 307 /\ log[3].status = 404
    /\ last.err = Err("HTTPStatusError", 404)

\* the kinds of request sent to a signed location / to an endpoint of the hub
SignedKinds == {"signed_get", "bucket_put"}
HubKinds == {"hub", "bench_meta", "meta", "lookup", "announce", "hub_put"}

(* C19: every request sent to a signed location (the GET of                *)
(* _load_from_signed_url, the PUT of the table in upload_dataset) goes out *)
(* without the hub token and without a token check; every request sent to  *)
(* an endpoint of the hub goes out with the hub token, after the check.    *)
C19_SignedWithoutCredentials ==
    \A i \in 1..Len(log) :
       /\ log[i].kind \in SignedKinds => ~log[i].cred /\ log[i].checked = "skipped"
       /\ log[i].kind \in HubKinds => log[i].cred /\ log[i].checked = "passed"
\* a download whose signed GET went out bare while an active hub token was stored
C19_Witness ==
    /\ Done("get_dataset") /\ last.ret
    /\ Len(log) = 3 /\ log[3].kind = "signed_get" /\ ~log[3].cred
    /\ log[1].cred /\ log[2].cred
    /\ HubActive(token)

C30_NoLicenseRaisesFirst ==
    (Done("upload_dataset") /\ ~up.license)
       => /\ last.err = Err("InvalidDatasetError", 0) /\ last.stage = "license"
          /\ log = <<>> /\ last.attempts = 0
          /\ last.exchanges = 0 /\ last.refreshes = 0
          /\ ~up.owner_set
          /\ default_timeout = last.dt0
          /\ token = last.tok0 /\ ext = last.ext0
\* the call was made with an expired hub token, which a request would have renewed
C30_Witness ==
    /\ Done("upload_dataset") /\ ~up.license
    /\ HasCls("InvalidDatasetError")
    /\ HubInactive(token) /\ IdentityActive(ext)

(* C27: upload_dataset returns normally only if the buffered bytes of the  *)
(* table were sent to the signed destination and that PUT was answered     *)
(* with a success status: no call returns normally without having          *)
(* transmitted the table.                                                  *)
C27_ReturnsOnlyAfterTransmission ==
    (Done("upload_dataset") /\ last.ret)
       => \E i \in KindsAt({"bucket_put"}) : Is2xx(log[i].status)

(* C28: in an array transfer with if_exists = "raise" the CopyError is     *)
(* raised only at a chunk the destination held before the upload, never at *)
(* an object the upload itself wrote (the root group written when the      *)
(* destination is opened in mode "w", the .zmetadata object written before *)
(* the copy); into a destination that held no chunk the copy raises no     *)
(* CopyError and, if no request fails, the call returns normally.          *)
C28_RaiseOnlyForOlderChunks ==
    (Done("upload_dataset") /\ up.uses_zarr /\ up.if_exists = "raise"
        /\ last.stage = "copy")
       => /\ HasCls("CopyError") => last.key \in PreExisting
          /\ PreExisting = {} => ~HasCls("CopyError")
          /\ (PreExisting = {} /\ last.attempts = 0) => last.ret

(* C24: upload_dataset is not atomic and nothing is rolled back.  When the *)
(* call raises, every request it sent is a request of the three steps, the *)
(* request that failed (if one did) is the last one sent, and every key of *)
(* the destination store the copy had written holds what was written, the  *)
(* keys it had not come to hold what they held: the hub is left with the   *)
(* metadata it accepted and a missing or partially written array store.    *)
C24_NoRollback ==
    (Done("upload_dataset") /\ ~HasCls("none"))
       => /\ \A i \in 1..Len(log) : UploadRank(log[i].kind) > 0
          /\ \A i \in 1..(Len(log) - 1) :
               \/ Is2xx(log[i].status)
               \/ log[i].kind = "hub_put" /\ log[i].status = 307
          /\ \A k \in StoreKeys :
               up.dest[k] =
                  IF /\ k < up.next
                     /\ CopyDecision(up.if_exists, up.dest0[k] # "absent") = "copy"
                  THEN "source" ELSE up.dest0[k]
\* the announce was accepted and the copy broke off between two chunks
C24_Witness ==
    /\ Done("upload_dataset") /\ ~HasCls("none") /\ last.stage = "copy"
    /\ Is2xx(log[1].status)
    /\ \E c \in Chunks : up.dest[c] = "source" /\ up.dest0[c] # "source"
    /\ \E c \in Chunks : up.dest[c] # "source"

\* a download (get_dataset or get_benchmark) has ended / has returned its artifact
Downloaded == pc = "done" /\ last.op \in {"get_dataset", "get_benchmark"}
Returned == Downloaded /\ last.ret
\* what the strategy of the call says for the dataset it met
StrategySaysVerify ==
    \/ dl.strategy = "verify"
    \/ dl.strategy = "verify_unless_zarr" /\ ~dl.meta.uses_zarr

(* C21: a download that returns has computed the digest of the dataset     *)
(* locally exactly when the strategy says so ("verify"; or                 *)
(* "verify_unless_zarr" on a dataset without array content); otherwise     *)
(* ("ignore"; or "verify_unless_zarr" on a dataset with array content) the *)
(* digest of the dataset is the md5Sum the hub reported and nothing was    *)
(* computed.  get_benchmark decides the same way, by the benchmark's       *)
(* dataset, for the digest of the benchmark.  A download raises from a     *)
(* verification only when the strategy says to verify.                     *)
C21_VerifiesPerStrategy ==
    /\ Returned =>
          IF StrategySaysVerify
          THEN /\ dl.recomputed = 1
               /\ \E array \in ArraysFound(dl.meta.uses_zarr) :
                    dl.md5sum = Checksum(dl.table, array)
               /\ dl.bench => /\ dl.bench_recomputed = 1
                              /\ dl.bench_md5sum = BenchChecksum(dl.md5sum)
          ELSE /\ dl.recomputed = 0
               /\ dl.md5sum = dl.meta.md5Sum
               /\ dl.bench => /\ dl.bench_recomputed = 0
                              /\ dl.bench_md5sum = dl.bmd5Sum
    /\ (Downloaded /\ last.stage \in {"verify", "bench_verify"}) => StrategySaysVerify
\* a benchmark on a dataset with array content, downloaded with the default
\* strategy: both digests are the reported ones, though the table is another
C21_Witness ==
    /\ Returned /\ dl.bench
    /\ dl.strategy = "verify_unless_zarr" /\ dl.meta.uses_zarr
    /\ dl.recomputed = 0 /\ dl.bench_recomputed = 0
    /\ dl.md5sum # Checksum(dl.table, "source")

(* C22: a mismatch found by a verifying download is fatal.  A download     *)
(* that verifies returns only an artifact whose computed digest equals the *)
(* reported one (the dataset's; in get_benchmark the benchmark's as well); *)
(* when a verification fails the call raises PolarisChecksumError and      *)
(* hands no artifact to the caller.                                        *)
C22_MismatchIsFatal ==
    /\ (Returned /\ StrategySaysVerify)
          => /\ dl.md5sum = dl.meta.md5Sum
             /\ dl.bench => dl.bench_md5sum = dl.bmd5Sum
    /\ (Downloaded /\ last.stage \in {"verify", "bench_verify"})
          => /\ last.err = Err("PolarisChecksumError", 0)
             /\ ~last.ret
             /\ dl.table = <<>> /\ dl.md5sum = <<>> /\ dl.bench_md5sum = <<>>
\* the dataset passed its verification, the benchmark did not
C22_Witness ==
    /\ Done("get_benchmark") /\ last.stage = "bench_verify"
    /\ HasCls("PolarisChecksumError")
    /\ dl.strategy = "verify"

(* C29: the tabular bytes sent to the signed destination in step 2 of      *)
(* upload_dataset are the bytes of the buffer whose size and digest the    *)
(* announce of step 1 carried: the table was written to the buffer once,   *)
(* the announced size is the length of the bytes sent and the announced    *)
(* md5 is the md5 of the bytes sent; and every PUT to the signed           *)
(* destination that went on the wire carried these bytes.                  *)
C29_SentIsAnnouncedBuffer ==
    /\ up.sent.held
          => /\ up.announced.made
             /\ up.serialized = 1
             /\ up.buffer = ToParquet(dataset.table)
             /\ up.sent.bytes = up.buffer
             /\ up.announced.size = ParquetSize(up.sent.bytes)
             /\ up.announced.md5 = Md5(up.sent.bytes)
    /\ KindsAt({"bucket_put"}) # {} => up.sent.held
\* the two-row table was sent to the signed destination and the upload returned
C29_Witness ==
    /\ Done("upload_dataset") /\ last.ret /\ last.stage = "bucket_put"
    /\ dataset.table = <<"a", "b">>
    /\ up.sent.held /\ up.sent.bytes = <<"PAR1", "a", "b", "PAR1">>
    /\ up.announced.size = 4

\* the chunks the announced manifest covers
ManifestChunks == {m[1] : m \in up.announced.manifest}
\* the chunks of the source the array transfer went over: copied, or left
\* alone because the destination held them
ChunksTransferred == {c \in Chunks : up.dest[c] = "source" \/ up.dest0[c] # "absent"}

(* C23: in upload_dataset the chunk manifest and the size and digest of    *)
(* the table are computed before the announce is sent; from the announce   *)
(* to the end of the transfer the source is neither read again to compute  *)
(* them nor written to; and the chunks of the source that an array         *)
(* transfer which ran to its end went over are exactly the chunks the      *)
(* announced manifest covers.                                              *)
C23_SourceFixedAfterAnnounce ==
    up.announced.made
       => /\ up.serialized = 1
          /\ up.announced.size = ParquetSize(up.buffer)
          /\ up.announced.md5 = Md5(up.buffer)
          /\ up.announced.manifest = (IF up.uses_zarr THEN Manifest(SourceStore) ELSE {})
          /\ up.src_written = {}
          /\ (Done("upload_dataset") /\ last.stage = "copy" /\ last.ret)
                => ChunksTransferred = ManifestChunks

\* a download of the dataset, with verification "verify", from a hub that
\* stored the announce and the table of an upload of it; every request of
\* the download was answered with success.  Stated for a dataset without
\* array content.
RoundTrip ==
    /\ pc = "done" /\ last.op = "get_dataset"
    /\ last.stage \in {"table", "verify", "return"}
    /\ dl.strategy = "verify"
    /\ hub.stores /\ hub.announced.made /\ hub.table.held
    /\ ~hub.announced.uses_zarr

(* C25: round trip.  After an upload of a dataset to a hub that stores     *)
(* what it receives, a download with verification "verify" returns a       *)
(* dataset whose table is the table of the source, byte for byte in its    *)
(* parquet form, with the digest the upload announced, and the             *)
(* verification of the digest succeeds.                                    *)
C25_RoundTrip ==
    RoundTrip
       => /\ last.ret
          /\ dl.table = dataset.table
          /\ hub.table.bytes = ToParquet(dataset.table)
          /\ dl.recomputed = 1
          /\ dl.md5sum = hub.announced.md5Sum

(* C26: every BenchmarkResults instance that exists after construction has *)
(* a name made only of letters, digits, underscores and dashes: a name     *)
(* given with any other character is rejected with InvalidResultError, and *)
(* a name that was not given is filled in with a value that satisfies the  *)
(* rule as well.                                                           *)
C26_NameAlwaysValid ==
    /\ res.made => res.name.given /\ AllValid(res.name.chars)
    /\ (Done("BenchmarkResults") /\ res.arg.given /\ ~AllValid(res.arg.chars))
          => ~res.made /\ HasCls("InvalidResultError")

\* a call that opened the remote array store ended: open_zarr_file itself,
\* or upload_dataset at the opening of the destination in step 3
StoreOpened ==
    /\ pc = "done"
    /\ \/ last.op = "open_zarr_file" /\ last.stage = "zarr_file"
       \/ last.op = "upload_dataset" /\ last.stage = "store_open"
\* the error classes of request() that tell the caller what to fix
TellingErrors == {"SSLCertVerificationError", "PolarisUnauthorizedError"}

(* C31: error classes stay distinguishable through open_zarr_file.  When a *)
(* request made while the remote array store is opened raises the          *)
(* certificate error or the unauthorized error, the call (open_zarr_file,  *)
(* or upload_dataset in step 3) raises an error of that same class, not    *)
(* PolarisHubError.                                                        *)
C31_ErrorClassKept ==
    (StoreOpened /\ last.cause \in TellingErrors)
       => /\ last.err.cls = last.cause
          /\ ~HasCls("PolarisHubError")

\* the samples of the input
Samples == 0..(split.n_samples - 1)
\* the call of _iter_indices has yielded all its splits
SplitDone == pc = "done" /\ last.op = "_iter_indices" /\ last.ret

(* C32: for every split that MinMaxSplit._iter_indices yields over n       *)
(* samples, the train and test index sets are disjoint, their union is     *)
(* exactly {0..n-1} and the train set has n_train elements; a call that    *)
(* ends has yielded exactly n_splits splits; split i was picked with seed  *)
(* base_seed + i; and with random_state = None the base seed is 0 and the  *)
(* splits are those of the call before.                                    *)
C32_SplitsPartitionSamples ==
    /\ \A k \in 1..Len(split.yielded) :
         /\ split.yielded[k].train \cap split.yielded[k].test = {}
         /\ split.yielded[k].train \cup split.yielded[k].test = Samples
         /\ Cardinality(split.yielded[k].train) = split.n_train
         /\ split.yielded[k].seed = split.base_seed + (k - 1)
    /\ SplitDone => Len(split.yielded) = split.n_splits
    /\ (split.calls > 0 /\ ~split.random_state.given) => split.base_seed = 0
    /\ (SplitDone /\ split.calls > 1 /\ ~split.random_state.given)
          => split.yielded = split.before

=============================================================================
